---- MODULE Spec2Model ----
(***************************************************************************)
(* greentic-cards2pack: scanning cards, building the per-flow routing      *)
(* graph, ordering its nodes, emitting the flow through the external       *)
(* flow-compiler and merging the GENERATED block into the persistent flow  *)
(* document.                                                               *)
(*                                                                         *)
(* Strings are TLA+ strings; a text (file contents) is a sequence of       *)
(* tokens: a marker, a newline, a space, or a chunk of non-blank           *)
(* characters.  Option<T> is the empty sequence (None) or <<v>> (Some).    *)
(***************************************************************************)
EXTENDS Integers, Sequences, FiniteSets, TLC

VARIABLES
    strict,      \* the strict flag of the run (args.strict)
    flows,       \* manifest.flows: the FlowGroups of the run, in flow-name order
    flowIdx,     \* position of generate's loop over manifest.flows
    pc,          \* where the run is: build | scaffold | nodes | done | failed
    graph,       \* the FlowGraph of the current flow (build_flow_graph's result)
    error,       \* the error the run returned (Option)
    order,       \* the node names still to be emitted, in resolve_node_order's order
    created,     \* generate_flow_with_cli's `created` set
    warnings,    \* generate_flow_with_cli's `warnings`
    calls,       \* the flow-compiler calls issued by the current emission pass
    tmp,         \* the scaffold files under .cards2pack/tmp: flow name -> text
    files,       \* the persistent flow documents: path -> text
    run,         \* number of the generation run
    written,     \* history: the [run, flow, path, text] records of every write
    doc0,        \* document harness: the document as the developer left it
    doc,         \* document harness: the document after the calls so far
    block,       \* document harness: the GENERATED block of the last merge
    primary,     \* document harness: whether the document is the primary one
    rounds,      \* document harness: merges / insertions applied so far
    cards_dir,   \* the cards directory: relative path -> what the file holds
    walk,        \* the order in which the directory walk yields the files
    group_by,    \* ScanConfig.group_by (Option)
    default_flow,       \* ScanConfig.default_flow (Option)
    manifest_warnings   \* manifest.warnings of the run

runVars == << strict, flows, flowIdx, pc, graph, error, order, created, warnings,
              calls, tmp, files, run, written, manifest_warnings >>

mergeVars == << doc0, doc, block, primary, rounds >>

scanVars == << cards_dir, walk, group_by, default_flow >>

vars == << runVars, mergeVars, scanVars >>

----------------------------------------------------------------------------
(* Bounds of the model *)

\* total number of actions over the cards of one run
MaxEdges == 3
\* number of generation runs over the same workspace
MaxRuns == 2
\* length, in tokens, of a hand-written document
MaxLen == 5
\* number of successive merges into one document
MaxRounds == 2
\* number of files in the cards directory
MaxFiles == 2
\* number of nodes of a flow document given to insert_prompt_node
MaxNodes == 3

----------------------------------------------------------------------------
(* Names and their byte-wise lexicographic order (String's Ord) *)

NameOrder ==
    << "A", "A.json", "B", "B.json", "C", "C.txt", "X", "alpha", "beta",
       "d", "d/A.json", "f", "g", "main", "misc" >>

Range(s) == { s[i] : i \in 1..Len(s) }

Rank(name) == CHOOSE i \in 1..Len(NameOrder) : NameOrder[i] = name

RECURSIVE SortedFrom(_, _)
SortedFrom(S, i) ==
    IF i > Len(NameOrder) THEN << >>
    ELSE (IF NameOrder[i] \in S THEN << NameOrder[i] >> ELSE << >>)
         \o SortedFrom(S, i + 1)

\* the keys of a BTreeMap / the elements of a BTreeSet, in iteration order
SortedKeys(S) == SortedFrom(S, 1)

RECURSIVE SortFrom(_, _)
SortFrom(s, i) ==
    IF i > Len(NameOrder) THEN << >>
    ELSE SelectSeq(s, LAMBDA x : x = NameOrder[i]) \o SortFrom(s, i + 1)

\* Vec<String>::sort
SortNames(s) == SortFrom(s, 1)

None == << >>
Some(v) == << v >>

----------------------------------------------------------------------------
(* Diagnostics (diagnostics.rs, ir.rs) *)

\* A Warning: its kind and its message; the message is kept as its format
\* string's tag and the values formatted into it.
warning(kind, what, a, b, c) ==
    [ kind |-> kind, what |-> what, a |-> a, b |-> b, c |-> c ]

----------------------------------------------------------------------------
(* Graph builder (graph.rs) *)

FlowNode(name, card_path, routes, stub) ==
    [ name |-> name, card_path |-> card_path, routes |-> routes, stub |-> stub ]

RouteEdge(key, target) == [ key |-> key, target |-> target ]

\* BTreeMap::insert / entry().or_insert on a map kept as a function
MapPut(m, k, v) == [ x \in (DOMAIN m) \cup {k} |-> IF x = k THEN v ELSE m[x] ]

StubNodeUnflagged(name) == FlowNode(name, None, << >>, FALSE)

\* the node inserted for a target that names no node (graph.rs 75-83)
StubNode(name) == FlowNode(name, None, << >>, TRUE)

RouteKeyNoTitle(action, target, index) ==
    IF target # "" THEN target ELSE "action-" \o ToString(index + 1)

route_key_for_action(action, target, index) ==
    IF target # "" THEN target
    ELSE IF action.title # None /\ action.title[1] # "" THEN action.title[1]
    ELSE "action-" \o ToString(index + 1)

SuffixPastAll(key, used_keys, suffix) == suffix + Cardinality(used_keys)

RECURSIVE FirstFreeSuffix(_, _, _)
FirstFreeSuffix(key, used_keys, suffix) ==
    IF (key \o "-" \o ToString(suffix)) \in used_keys
    THEN FirstFreeSuffix(key, used_keys, suffix + 1)
    ELSE suffix

RenameAlwaysTwo(key, used_keys) == key \o "-" \o ToString(2)

\* the renamed key of a colliding route key (graph.rs 88-92)
RenamedKey(key, used_keys) ==
    key \o "-" \o ToString(FirstFreeSuffix(key, used_keys, 2))

\* One pass of the loop over a card's actions, from 0-based position `index`.
\* st: [nodes, warnings, used_keys, routes, err]; err set means bail!.
RECURSIVE BuildActions(_, _, _, _, _)
BuildActions(card, flow_name, strictMode, index, st) ==
    IF st.err # None \/ index >= Len(card.actions) THEN st
    ELSE
      LET action == card.actions[index + 1] IN
      IF action.target = None
      THEN BuildActions(card, flow_name, strictMode, index + 1, st)
      ELSE
        LET target_name == action.target[1]
            missing == target_name \notin DOMAIN st.nodes
        IN
        IF missing /\ strictMode
        THEN [ st EXCEPT !.err =
                 Some([ what |-> "missing target", target |-> target_name,
                        card |-> card.card_id, flow |-> flow_name ]) ]
        ELSE
          LET nodes1 == IF missing
                        THEN MapPut(st.nodes, target_name, StubNode(target_name))
                        ELSE st.nodes
              warn1 == IF missing
                       THEN Append(st.warnings,
                                   warning("MissingTarget", "missing target; creating stub",
                                           target_name, card.card_id, flow_name))
                       ELSE st.warnings
              key0 == route_key_for_action(action, target_name, index)
              dup == key0 \in st.used_keys
              key == IF dup THEN RenamedKey(key0, st.used_keys) ELSE key0
              warn2 == IF dup
                       THEN Append(warn1,
                                   warning("Inconsistent", "duplicate route key; renamed",
                                           key0, card.card_id, key))
                       ELSE warn1
          IN BuildActions(card, flow_name, strictMode, index + 1,
                 [ nodes |-> nodes1, warnings |-> warn2,
                   used_keys |-> st.used_keys \cup {key},
                   routes |-> Append(st.routes, RouteEdge(key, target_name)),
                   err |-> None ])

\* the first loop: one node per card id (entry().or_insert_with)
RECURSIVE InsertCardNodes(_, _, _)
InsertCardNodes(cards, i, nodes) ==
    IF i > Len(cards) THEN nodes
    ELSE LET card == cards[i] IN
         InsertCardNodes(cards, i + 1,
            IF card.card_id \in DOMAIN nodes THEN nodes
            ELSE MapPut(nodes, card.card_id,
                        FlowNode(card.card_id,
                                 Some("assets/cards/" \o card.rel_path),
                                 << >>, FALSE)))

\* the second loop: the routes of every card.  st: [nodes, warnings, err]
RECURSIVE BuildCards(_, _, _, _)
BuildCards(group, strictMode, i, st) ==
    IF st.err # None \/ i > Len(group.cards) THEN st
    ELSE
      LET card == group.cards[i]
          r == BuildActions(card, group.flow_name, strictMode, 0,
                   [ nodes |-> st.nodes, warnings |-> st.warnings,
                     used_keys |-> {}, routes |-> << >>, err |-> None ])
      IN
      IF r.err # None
      THEN [ st EXCEPT !.err = r.err ]
      ELSE BuildCards(group, strictMode, i + 1,
              [ nodes |-> IF card.card_id \in DOMAIN r.nodes
                          THEN [ r.nodes EXCEPT ![card.card_id].routes = @ \o r.routes ]
                          ELSE r.nodes,
                warnings |-> r.warnings,
                err |-> None ])

\* Result<FlowGraph>: [ok, graph, err]
build_flow_graph(group, strictMode) ==
    LET r == BuildCards(group, strictMode, 1,
                 [ nodes |-> InsertCardNodes(group.cards, 1, << >>),
                   warnings |-> << >>, err |-> None ])
    IN IF r.err # None
       THEN [ ok |-> FALSE, graph |-> None, err |-> r.err ]
       ELSE [ ok |-> TRUE,
              graph |-> Some([ flow_name |-> group.flow_name, nodes |-> r.nodes,
                               warnings |-> r.warnings ]),
              err |-> None ]

----------------------------------------------------------------------------
(* Node orderer (emit_flow.rs) *)

IndegreeOfTargets(nodes) ==
    [ n \in DOMAIN nodes |->
        Cardinality({ p \in (DOMAIN nodes) \X (1..MaxEdges + 1) :
                        /\ p[2] <= Len(nodes[p[1]].routes)
                        /\ nodes[p[1]].routes[p[2]].target = n }) ]

\* indegree[n]: the routes of n whose target is a node of the graph
\* (emit_flow.rs 166-171 counts them on the routing node's own entry)
Indegree(nodes) ==
    [ n \in DOMAIN nodes |->
        Cardinality({ i \in 1..Len(nodes[n].routes) :
                        nodes[n].routes[i].target \in DOMAIN nodes }) ]

\* the names that route to `target`, one per route, nodes in BTreeMap order
RECURSIVE DependentsFrom(_, _, _)
DependentsFrom(nodes, keys, target) ==
    IF keys = << >> THEN << >>
    ELSE LET node == nodes[Head(keys)]
             hits == SelectSeq(node.routes, LAMBDA r : r.target = target)
         IN [ i \in 1..Len(hits) |-> node.name ]
            \o DependentsFrom(nodes, Tail(keys), target)

Dependents(nodes) ==
    LET targets == { t \in DOMAIN nodes :
                       \E n \in DOMAIN nodes :
                         \E i \in 1..Len(nodes[n].routes) : nodes[n].routes[i].target = t }
    IN [ t \in targets |-> DependentsFrom(nodes, SortedKeys(DOMAIN nodes), t) ]

\* the loop over the children of a popped node (emit_flow.rs 195-203)
RECURSIVE ReleaseChildren(_, _, _, _)
ReleaseChildren(children, i, indegree, queue) ==
    IF i > Len(children) THEN [ indegree |-> indegree, queue |-> queue ]
    ELSE
      LET child == children[i] IN
      IF child \notin DOMAIN indegree
      THEN ReleaseChildren(children, i + 1, indegree, queue)
      ELSE
        LET entry == IF indegree[child] > 0 THEN indegree[child] - 1 ELSE 0 IN
        ReleaseChildren(children, i + 1, [ indegree EXCEPT ![child] = entry ],
                        IF entry = 0 THEN SortNames(Append(queue, child)) ELSE queue)

\* a pop from the front of the queue: the smallest element
PopFront(queue) ==
    [ node |-> queue[1], rest |-> SubSeq(queue, 2, Len(queue)) ]

\* Vec::pop: the last, i.e. the largest, element of the sorted queue
PopQueue(queue) ==
    [ node |-> queue[Len(queue)], rest |-> SubSeq(queue, 1, Len(queue) - 1) ]

\* while let Some(node) = queue.pop() (emit_flow.rs 192-205)
RECURSIVE OrderLoop(_, _, _, _)
OrderLoop(dependents, indegree, queue, ordered) ==
    IF queue = << >> THEN ordered
    ELSE
      LET p == PopQueue(queue)
          r == IF p.node \in DOMAIN dependents
               THEN ReleaseChildren(dependents[p.node], 1, indegree, p.rest)
               ELSE [ indegree |-> indegree, queue |-> p.rest ]
      IN OrderLoop(dependents, r.indegree, r.queue, Append(ordered, p.node))

ResolveNodeOrderByName(g) == SortedKeys(DOMAIN g.nodes)

\* resolve_node_order without the remainder appended after the loop
ResolveNodeOrderReadyOnly(g) ==
    OrderLoop(Dependents(g.nodes), Indegree(g.nodes),
              SortNames(SelectSeq(SortedKeys(DOMAIN g.nodes),
                                  LAMBDA n : Indegree(g.nodes)[n] = 0)),
              << >>)

resolve_node_order(g) ==
    LET indegree == Indegree(g.nodes)
        ordered == OrderLoop(Dependents(g.nodes), indegree,
                             SortNames(SelectSeq(SortedKeys(DOMAIN g.nodes),
                                                 LAMBDA n : indegree[n] = 0)),
                             << >>)
    IN IF Len(ordered) # Cardinality(DOMAIN g.nodes)
       THEN ordered \o SortNames(SelectSeq(SortedKeys(DOMAIN g.nodes),
                                           LAMBDA n : n \notin Range(ordered)))
       ELSE ordered

----------------------------------------------------------------------------
(* Flow emitter: one pass of generate_flow_with_cli (emit_flow.rs) *)

COMPONENT_REF == "oci://ghcr.io/greentic-ai/components/component-adaptive-card:latest"

ResolveRoutesSorted(node, createdSet) ==
    [ routes  |-> SortNames([ i \in 1..Len(SelectSeq(node.routes, LAMBDA r : r.target \in createdSet))
                      |-> SelectSeq(node.routes, LAMBDA r : r.target \in createdSet)[i].target ]),
      skipped |-> [ i \in 1..Len(SelectSeq(node.routes, LAMBDA r : r.target \notin createdSet))
                      |-> SelectSeq(node.routes, LAMBDA r : r.target \notin createdSet)[i].target ] ]

ResolveRoutesAll(node, createdSet) ==
    [ routes  |-> [ i \in 1..Len(node.routes) |-> node.routes[i].target ],
      skipped |-> << >> ]

\* (routes, skipped): the targets already created, and the others
resolve_routes(node, createdSet) ==
    LET hit  == SelectSeq(node.routes, LAMBDA r : r.target \in createdSet)
        miss == SelectSeq(node.routes, LAMBDA r : r.target \notin createdSet)
    IN [ routes  |-> [ i \in 1..Len(hit) |-> hit[i].target ],
         skipped |-> [ i \in 1..Len(miss) |-> miss[i].target ] ]

\* the fields of the JSON payload that vary
build_card_payload(node_id, card_path, needs_interaction) ==
    [ card_source |-> "asset", asset_path |-> card_path,
      card_instance_id |-> node_id, enabled |-> needs_interaction,
      node_id |-> node_id, validation_mode |-> "warn" ]

\* Vec<String>::join(",")
RECURSIVE Join(_)
Join(names) ==
    IF names = << >> THEN ""
    ELSE IF Len(names) = 1 THEN names[1]
    ELSE names[1] \o "," \o Join(Tail(names))

\* the routing flag pushed onto the add-step arguments, and its warning
push_routing_flags(node_id, routes) ==
    IF Len(routes) = 0
    THEN [ flag |-> "--routing-out", arg |-> "", targets |-> << >>,
           warnings |-> << warning("MissingTarget", "no routes; using routing-out",
                                   node_id, "", "") >> ]
    ELSE IF Len(routes) = 1
    THEN [ flag |-> "--routing-next", arg |-> routes[1], targets |-> routes,
           warnings |-> << >> ]
    ELSE [ flag |-> "--routing-multi-to", arg |-> Join(routes), targets |-> routes,
           warnings |-> << >> ]

\* the `new` call of generate_flow_with_cli
NewCall(flow_name) ==
    [ cmd |-> "new", id |-> flow_name, node_id |-> "", component |-> "",
      operation |-> "", payload |-> << >>, flag |-> "", arg |-> "",
      targets |-> << >> ]

\* the `add-step` call of one node
AddStepCall(node_id, payload, routing) ==
    [ cmd |-> "add-step", id |-> "", node_id |-> node_id, component |-> COMPONENT_REF,
      operation |-> "card", payload |-> << payload >>, flag |-> routing.flag,
      arg |-> routing.arg, targets |-> routing.targets ]

----------------------------------------------------------------------------
(* Texts and the merge into the persistent document (emit_flow.rs) *)

BEGIN_MARKER == "# BEGIN GENERATED (cards2pack)"
END_MARKER == "# END GENERATED (cards2pack)"
NL == "\n"
SP == " "
HASH == "#"
DevHeaderMain == "# Developer space below (preserved on regen; keep it commented)"
DevHeader == "# Developer space below (preserved on regen)"

IsWhitespace(tok) == tok \in { NL, SP }

\* str::find: the position of the first occurrence at or after `from`, 0 for None
FindFrom(txt, from, tok) ==
    IF \E i \in from..Len(txt) : txt[i] = tok
    THEN CHOOSE i \in from..Len(txt) :
            txt[i] = tok /\ \A j \in from..(i - 1) : txt[j] # tok
    ELSE 0

Find(txt, tok) == FindFrom(txt, 1, tok)

RECURSIVE trim_start(_)
trim_start(txt) ==
    IF txt # << >> /\ IsWhitespace(Head(txt)) THEN trim_start(Tail(txt)) ELSE txt

RECURSIVE trim_end(_)
trim_end(txt) ==
    IF txt # << >> /\ IsWhitespace(txt[Len(txt)])
    THEN trim_end(SubSeq(txt, 1, Len(txt) - 1))
    ELSE txt

trim(txt) == trim_end(trim_start(txt))

\* str::lines: the pieces between newlines; a final newline ends the last line
RECURSIVE lines(_)
lines(txt) ==
    IF txt = << >> THEN << >>
    ELSE LET nl == Find(txt, NL) IN
         IF nl = 0 THEN << txt >>
         ELSE << SubSeq(txt, 1, nl - 1) >> \o lines(SubSeq(txt, nl + 1, Len(txt)))

\* Vec<String>::join("\n")
RECURSIVE JoinLines(_)
JoinLines(ls) ==
    IF ls = << >> THEN << >>
    ELSE IF Len(ls) = 1 THEN ls[1]
    ELSE ls[1] \o << NL >> \o JoinLines(Tail(ls))

CommentLine(line) ==
    IF trim(line) = << >> THEN << HASH >> ELSE << HASH, SP >> \o line

comment_block(input) ==
    IF trim(input) = << >> THEN << >>
    ELSE LET ls == lines(input) IN
         JoinLines([ i \in 1..Len(ls) |-> CommentLine(ls[i]) ])

\* the position after the newline that ends the end-marker's line, 0 for None
AfterEnd(txt, end) ==
    LET nl == FindFrom(txt, end, NL) IN IF nl = 0 THEN 0 ELSE nl + 1

extract_dev_section(txt) ==
    LET start == Find(txt, BEGIN_MARKER)
        end   == Find(txt, END_MARKER)
    IN IF start # 0 /\ end # 0 /\ end > start /\ AfterEnd(txt, end) # 0
       THEN trim(SubSeq(txt, AfterEnd(txt, end), Len(txt)))
       ELSE trim(txt)

merge_main_flow(txt, blk) ==
    LET commented == comment_block(extract_dev_section(txt)) IN
    IF commented = << >>
    THEN blk \o << NL, DevHeaderMain, NL >>
    ELSE blk \o << NL, DevHeaderMain, NL >> \o commented \o << NL >>

ReplaceDropAfter(txt, blk) ==
    LET start == Find(txt, BEGIN_MARKER)
        end   == Find(txt, END_MARKER)
    IN IF start # 0 /\ end # 0 /\ end > start
       THEN SubSeq(txt, 1, start - 1) \o blk
       ELSE IF trim(txt) = << >>
            THEN blk \o << NL, DevHeader, NL >>
            ELSE blk \o << NL >> \o txt

replace_generated_block(txt, blk) ==
    LET start == Find(txt, BEGIN_MARKER)
        end   == Find(txt, END_MARKER)
    IN IF start # 0 /\ end # 0 /\ end > start
       THEN LET after_end == AfterEnd(txt, end)
                before == SubSeq(txt, 1, start - 1)
                after  == IF after_end = 0 THEN << >>
                          ELSE SubSeq(txt, after_end, Len(txt))
            IN before \o blk \o after
       ELSE IF trim(txt) = << >>
            THEN blk \o << NL, DevHeader, NL >>
            ELSE blk \o << NL >> \o txt

BlockUnterminated(generated) == << BEGIN_MARKER, NL >> \o generated \o << NL >>

\* format!("{BEGIN_MARKER}\n{generated}\n{END_MARKER}\n")
Block(generated) == << BEGIN_MARKER, NL >> \o generated \o << NL, END_MARKER, NL >>

----------------------------------------------------------------------------
(* The external flow-compiler: what a call does to the scaffold file *)

CallLine(call) ==
    IF call.cmd = "new"
    THEN << "id: " \o call.id, NL, "nodes:", NL >>
    ELSE << call.node_id \o ": " \o call.payload[1].asset_path
              \o (IF call.payload[1].enabled THEN " input " ELSE " ")
              \o call.flag \o " " \o call.arg, NL >>

\* new --flow <tmp_flow> ... --force: the scaffold file is written afresh
ScaffoldNew(old, call) == CallLine(call)

\* add-step --flow <tmp_flow>: the step is added to the scaffold file
ScaffoldAddStep(old, call) == old \o CallLine(call)

----------------------------------------------------------------------------
(* emit_flow's write of the persistent document *)

MainPath == "flows/main.ygtc"

\* flows_dir.join("main.ygtc"): the same path for every flow
EmitPath(flow_name) == MainPath

\* path.ends_with("main.ygtc")
EndsWithMain(path) == path = MainPath

\* emit_flow.rs 30-48
NextContents(current, path, blk) ==
    IF path \in DOMAIN current
    THEN IF EndsWithMain(path)
         THEN merge_main_flow(current[path], blk)
         ELSE replace_generated_block(current[path], blk)
    ELSE IF EndsWithMain(path)
         THEN blk \o << NL, DevHeaderMain, NL >>
         ELSE blk \o << NL, DevHeader, NL >>

----------------------------------------------------------------------------
(* Card scanner (scan.rs) *)

\* the relative paths of the model: components, file stem and extension
PathInfo ==
    ("A.json" :> [ components |-> << "A.json" >>, stem |-> "A", ext |-> "json" ])
    @@ ("B.json" :> [ components |-> << "B.json" >>, stem |-> "B", ext |-> "json" ])
    @@ ("C.txt" :> [ components |-> << "C.txt" >>, stem |-> "C", ext |-> "txt" ])
    @@ ("d/A.json" :> [ components |-> << "d", "A.json" >>, stem |-> "A", ext |-> "json" ])

ScanConfig(groupBy, defaultFlow, strictMode) ==
    [ group_by |-> groupBy, default_flow |-> defaultFlow, strict |-> strictMode ]

\* resolve_consistent_value that fails on differing values in either mode
ResolveConsistentValueBail(values, label, rel_path, strictMode) ==
    IF values = << >>
    THEN [ value |-> None, warnings |-> << >>, err |-> None ]
    ELSE IF Cardinality(Range(values)) > 1
    THEN [ value |-> None, warnings |-> << >>,
           err |-> Some([ what |-> "inconsistent values", label |-> label,
                          rel_path |-> rel_path,
                          values |-> SortedKeys(Range(values)) ]) ]
    ELSE [ value |-> Some(values[1]), warnings |-> << >>, err |-> None ]

\* Result<Option<String>>: [value, warnings, err]
resolve_consistent_value(values, label, rel_path, strictMode) ==
    LET unique == SortedKeys(Range(values)) IN
    IF values = << >>
    THEN [ value |-> None, warnings |-> << >>, err |-> None ]
    ELSE IF Len(unique) > 1
    THEN IF strictMode
         THEN [ value |-> None, warnings |-> << >>,
                err |-> Some([ what |-> "inconsistent values", label |-> label,
                               rel_path |-> rel_path, values |-> unique ]) ]
         ELSE [ value |-> Some(values[1]),
                warnings |-> << warning("Inconsistent", "inconsistent values",
                                        label, rel_path, unique) >>,
                err |-> None ]
    ELSE [ value |-> Some(unique[1]), warnings |-> << >>, err |-> None ]

ResolveCardIdTopFirst(action_card_ids, object, rel_path, config) ==
    IF object.greentic_cardId # None
    THEN [ value |-> object.greentic_cardId[1], warnings |-> << >>, err |-> None ]
    ELSE LET r == resolve_consistent_value(action_card_ids, "cardId", rel_path,
                                           config.strict)
         IN IF r.err # None THEN [ value |-> "", warnings |-> << >>, err |-> r.err ]
            ELSE IF r.value # None
            THEN [ value |-> r.value[1], warnings |-> r.warnings, err |-> None ]
            ELSE [ value |-> PathInfo[rel_path].stem, warnings |-> << >>, err |-> None ]

\* Result<String>: [value, warnings, err]
resolve_card_id(action_card_ids, object, rel_path, config) ==
    LET r == resolve_consistent_value(action_card_ids, "cardId", rel_path,
                                      config.strict)
    IN IF r.err # None THEN [ value |-> "", warnings |-> << >>, err |-> r.err ]
       ELSE IF r.value # None
       THEN [ value |-> r.value[1], warnings |-> r.warnings, err |-> None ]
       ELSE IF object.greentic_cardId # None
       THEN [ value |-> object.greentic_cardId[1], warnings |-> << >>, err |-> None ]
       ELSE [ value |-> PathInfo[rel_path].stem, warnings |-> << >>, err |-> None ]

FirstComponentAlways(rel_path) == Some(PathInfo[rel_path].components[1])

\* the first component of a path of at least two components
first_folder_component(rel_path) ==
    IF Len(PathInfo[rel_path].components) >= 2
    THEN Some(PathInfo[rel_path].components[1])
    ELSE None

\* Result<String>: [value, warnings, err]
resolve_flow_name(action_flow_names, object, rel_path, config) ==
    LET r == resolve_consistent_value(action_flow_names, "flow", rel_path,
                                      config.strict)
    IN IF r.err # None THEN [ value |-> "", warnings |-> << >>, err |-> r.err ]
       ELSE IF r.value # None
       THEN [ value |-> r.value[1], warnings |-> r.warnings, err |-> None ]
       ELSE IF object.greentic_flow # None
       THEN [ value |-> object.greentic_flow[1], warnings |-> << >>, err |-> None ]
       ELSE IF config.group_by = Some("Folder") /\ first_folder_component(rel_path) # None
       THEN [ value |-> first_folder_component(rel_path)[1], warnings |-> << >>,
              err |-> None ]
       ELSE IF config.default_flow # None
       THEN [ value |-> config.default_flow[1], warnings |-> << >>, err |-> None ]
       ELSE IF config.strict
       THEN [ value |-> "", warnings |-> << >>,
              err |-> Some([ what |-> "unable to resolve flow name",
                             rel_path |-> rel_path ]) ]
       ELSE [ value |-> "misc",
              warnings |-> << warning("MissingFlow", "flow name missing; using misc",
                                      rel_path, "", "") >>,
              err |-> None ]

ClassifyAnyKey(object) ==
    IF object.type = Some("AdaptiveCard") \/ object.has_actions \/ object.has_body
    THEN "card"
    ELSE "non-card"

\* scan.rs 80-98: "card", or the reason the object is ignored
Classify(object) ==
    IF object.type # None
    THEN IF object.type[1] # "AdaptiveCard" THEN "non-AdaptiveCard" ELSE "card"
    ELSE IF ~object.has_actions /\ ~object.has_body THEN "non-card"
    ELSE "card"

\* an action target that reads data.step only
ActionTargetStepOnly(action_obj) ==
    IF action_obj.step # None THEN Some(action_obj.step[1]) ELSE None

\* the target of an action: Step(data.step), else CardId(data.cardId), else none
ActionTarget(action_obj) ==
    IF action_obj.step # None THEN Some(action_obj.step[1])
    ELSE IF action_obj.cardId # None THEN Some(action_obj.cardId[1])
    ELSE None

\* the loop over the "actions" array (scan.rs 107-164).
\* st: [card_ids, flow_names, actions, warnings]
RECURSIVE ScanActions(_, _, _, _)
ScanActions(actions_value, rel_path, i, st) ==
    IF i > Len(actions_value) THEN st
    ELSE
      LET action_obj == actions_value[i] IN
      IF ~action_obj.is_object
      THEN ScanActions(actions_value, rel_path, i + 1,
              [ st EXCEPT !.warnings =
                  Append(@, warning("IgnoredFile", "ignored non-object action",
                                    rel_path, "", "")) ])
      ELSE ScanActions(actions_value, rel_path, i + 1,
              [ card_ids |-> IF action_obj.cardId # None
                             THEN Append(st.card_ids, action_obj.cardId[1])
                             ELSE st.card_ids,
                flow_names |-> IF action_obj.flow # None
                               THEN Append(st.flow_names, action_obj.flow[1])
                               ELSE st.flow_names,
                actions |-> Append(st.actions,
                                   [ title |-> action_obj.title,
                                     target |-> ActionTarget(action_obj) ]),
                warnings |-> st.warnings ])

\* one iteration of the loop over the directory walk (scan.rs 30-190).
\* st: [cards, warnings, err]
ScanEntry(rel_path, file, config, st) ==
    IF PathInfo[rel_path].ext # "json" THEN st
    ELSE IF ~file.readable
    THEN [ st EXCEPT !.warnings =
             Append(@, warning("InvalidJson", "failed to read", rel_path, "", "")) ]
    ELSE IF file.json = "invalid"
    THEN IF config.strict
         THEN [ st EXCEPT !.err = Some([ what |-> "invalid JSON", rel_path |-> rel_path ]) ]
         ELSE [ st EXCEPT !.warnings =
                  Append(@, warning("InvalidJson", "invalid JSON", rel_path, "", "")) ]
    ELSE IF file.json # "object"
    THEN [ st EXCEPT !.warnings =
             Append(@, warning("IgnoredFile", "non-object JSON ignored", rel_path, "", "")) ]
    ELSE IF Classify(file) = "non-AdaptiveCard"
    THEN [ st EXCEPT !.warnings =
             Append(@, warning("IgnoredFile", "non-AdaptiveCard JSON ignored",
                               rel_path, file.type[1], "")) ]
    ELSE IF Classify(file) = "non-card"
    THEN [ st EXCEPT !.warnings =
             Append(@, warning("IgnoredFile", "non-card JSON ignored", rel_path, "", "")) ]
    ELSE
      LET a == ScanActions(file.actions, rel_path, 1,
                   [ card_ids |-> << >>, flow_names |-> << >>, actions |-> << >>,
                     warnings |-> st.warnings ])
          id == resolve_card_id(a.card_ids, file, rel_path, config)
          fl == resolve_flow_name(a.flow_names, file, rel_path, config)
      IN IF id.err # None THEN [ st EXCEPT !.err = id.err ]
         ELSE IF fl.err # None THEN [ st EXCEPT !.err = fl.err ]
         ELSE [ cards |-> Append(st.cards,
                                 [ rel_path |-> rel_path, card_id |-> id.value,
                                   flow_name |-> fl.value, actions |-> a.actions ]),
                warnings |-> a.warnings \o id.warnings \o fl.warnings,
                err |-> None ]

\* the loop over the directory walk
RECURSIVE ScanEntries(_, _, _, _, _)
ScanEntries(dir, entries, config, i, st) ==
    IF st.err # None \/ i > Len(entries) THEN st
    ELSE ScanEntries(dir, entries, config, i + 1,
                     ScanEntry(entries[i], dir[entries[i]], config, st))

KeepEveryCard(cards, strictMode, i, st) ==
    [ flows |-> [ f \in { cards[k].flow_name : k \in 1..Len(cards) } |->
                    SelectSeq(cards, LAMBDA c : c.flow_name = f) ],
      seen |-> << >>, warnings |-> st.warnings, err |-> None ]

\* the loop that groups the cards by flow and drops a card id already seen
\* in its flow (scan.rs 205-223).  st: [flows, seen, warnings, err]
RECURSIVE GroupCards(_, _, _, _)
GroupCards(cards, strictMode, i, st) ==
    IF st.err # None \/ i > Len(cards) THEN st
    ELSE
      LET card == cards[i]
          flow_seen == IF card.flow_name \in DOMAIN st.seen
                       THEN st.seen[card.flow_name] ELSE << >>
      IN
      IF card.card_id \in DOMAIN flow_seen
      THEN IF strictMode
           THEN [ st EXCEPT !.err =
                    Some([ what |-> "duplicate card_id", card_id |-> card.card_id,
                           flow |-> card.flow_name,
                           existing |-> flow_seen[card.card_id],
                           rel_path |-> card.rel_path ]) ]
           ELSE GroupCards(cards, strictMode, i + 1,
                   [ st EXCEPT
                       !.seen = MapPut(@, card.flow_name, flow_seen),
                       !.warnings =
                          Append(@, warning("DuplicateCardId", "duplicate card_id",
                                            card.card_id, card.flow_name,
                                            << flow_seen[card.card_id], card.rel_path >>)) ])
      ELSE GroupCards(cards, strictMode, i + 1,
              [ flows |-> MapPut(st.flows, card.flow_name,
                                 (IF card.flow_name \in DOMAIN st.flows
                                  THEN st.flows[card.flow_name] ELSE << >>)
                                   \o << card >>),
                seen |-> MapPut(st.seen, card.flow_name,
                                MapPut(flow_seen, card.card_id, card.rel_path)),
                warnings |-> st.warnings,
                err |-> None ])

\* cards.sort_by(rel_path)
SortCards(cards) ==
    LET paths == SortNames([ k \in 1..Len(cards) |-> cards[k].rel_path ]) IN
    [ k \in 1..Len(paths) |->
        CHOOSE c \in Range(cards) : c.rel_path = paths[k] ]

\* the flow groups in BTreeMap order, each sorted by rel_path (scan.rs 225-234)
FlowGroupsOf(by_flow) ==
    LET names == SortedKeys(DOMAIN by_flow) IN
    [ k \in 1..Len(names) |->
        [ flow_name |-> names[k], cards |-> SortCards(by_flow[names[k]]) ] ]

\* the manifest built from the grouping g (scan.rs 225-256)
ManifestOf(g) ==
    IF g.err # None
    THEN [ ok |-> FALSE, flows |-> << >>, warnings |-> << >>, err |-> g.err ]
    ELSE [ ok |-> TRUE, flows |-> FlowGroupsOf(g.flows), warnings |-> g.warnings,
           err |-> None ]

\* what follows the walk s: the check for no cards, then the grouping
\* (scan.rs 192-223)
GroupScanned(config, s) ==
    IF s.err # None
    THEN [ ok |-> FALSE, flows |-> << >>, warnings |-> << >>, err |-> s.err ]
    ELSE IF s.cards = << >> /\ config.strict
    THEN [ ok |-> FALSE, flows |-> << >>, warnings |-> << >>,
           err |-> Some([ what |-> "no Adaptive Card JSON files found" ]) ]
    ELSE ManifestOf(
           GroupCards(s.cards, config.strict, 1,
                      [ flows |-> << >>, seen |-> << >>,
                        warnings |->
                          IF s.cards = << >>
                          THEN Append(s.warnings,
                                      warning("IgnoredFile",
                                              "no Adaptive Card JSON files found",
                                              "", "", ""))
                          ELSE s.warnings,
                        err |-> None ]))

\* Result<Manifest>: [ok, flows, warnings, err]
scan_cards(config, dir, entries) ==
    GroupScanned(config,
                 ScanEntries(dir, entries, config, 1,
                             [ cards |-> << >>, warnings |-> << >>, err |-> None ]))

----------------------------------------------------------------------------
(* Prompt node (workspace.rs): insert_prompt_node on a flow document *)

\* A flow document is a sequence of newline-terminated lines.  A line is its
\* indentation (leading spaces) and what follows: nothing ("blank"), a
\* comment ("comment": # ...), a key ("key": name:), a list item ("dash":
\* - to: name) or other text ("text").
Line(indent, form, name) == [ indent |-> indent, form |-> form, name |-> name ]

BlankLine == Line(0, "blank", "")

\* whether the line's text ends with "nodes:", at any indentation and also
\* inside a comment (the comment "# nodes:" is Line(0, "comment", "nodes:"))
EndsWithMarker(line) ==
    \/ line.form = "key" /\ line.name = "nodes"
    \/ line.form = "comment" /\ line.name = "nodes:"

\* contents.find("nodes:\n"): the first line that ends with "nodes:", 0 for None
FindNodesMarker(contents) ==
    IF \E i \in 1..Len(contents) : EndsWithMarker(contents[i])
    THEN CHOOSE i \in 1..Len(contents) :
            /\ EndsWithMarker(contents[i])
            /\ \A j \in 1..(i - 1) : ~EndsWithMarker(contents[j])
    ELSE 0

\* the loop over the lines after the marker (workspace.rs 324-344)
RECURSIVE NodeOrderFrom(_, _, _)
NodeOrderFrom(contents, i, nodes) ==
    IF i > Len(contents) THEN nodes
    ELSE
      LET line == contents[i] IN
      IF line.form = "blank" THEN NodeOrderFrom(contents, i + 1, nodes)
      ELSE IF line.indent < 2 THEN nodes
      ELSE IF line.indent # 2 THEN NodeOrderFrom(contents, i + 1, nodes)
      ELSE IF line.form = "dash" THEN NodeOrderFrom(contents, i + 1, nodes)
      ELSE IF line.form = "key"
      THEN NodeOrderFrom(contents, i + 1, Append(nodes, line.name))
      ELSE nodes

\* Result<Vec<String>>: [ok, nodes, err]
extract_node_order(contents) ==
    LET start == FindNodesMarker(contents) IN
    IF start = 0
    THEN [ ok |-> FALSE, nodes |-> << >>,
           err |-> Some([ what |-> "missing nodes section" ]) ]
    ELSE LET nodes == NodeOrderFrom(contents, start + 1, << >>) IN
         IF nodes = << >>
         THEN [ ok |-> FALSE, nodes |-> << >>, err |-> Some([ what |-> "has no nodes" ]) ]
         ELSE [ ok |-> TRUE, nodes |-> nodes, err |-> None ]

\* the lines inserted for the prompt node, routed to `first`
PromptSnippet(first) ==
    << Line(2, "key", "prompt2flow"),
       Line(4, "key", "routing"),
       Line(4, "dash", first),
       Line(4, "key", "component.exec"),
       Line(6, "text", "component: ai.greentic.component-prompt2flow"),
       Line(6, "text", "operation: handle_message"),
       Line(6, "key", "input"),
       Line(8, "text", "config_path: assets/config/prompt2flow.json"),
       BlankLine >>

\* nodes.iter().position(..): the 0-based index of the first match, -1 for None
Position(nodes, name) ==
    IF \E i \in 1..Len(nodes) : nodes[i] = name
    THEN (CHOOSE i \in 1..Len(nodes) :
             nodes[i] = name /\ \A j \in 1..(i - 1) : nodes[j] # name) - 1
    ELSE -1

\* insert_prompt_node without its two checks of where prompt2flow is
InsertPromptUnchecked(contents) ==
    LET r == extract_node_order(contents) IN
    IF ~r.ok THEN [ ok |-> FALSE, contents |-> contents, err |-> r.err ]
    ELSE LET insert_pos == FindNodesMarker(contents) IN
         [ ok |-> TRUE,
           contents |-> SubSeq(contents, 1, insert_pos)
                          \o PromptSnippet(r.nodes[1])
                          \o SubSeq(contents, insert_pos + 1, Len(contents)),
           err |-> None ]

\* Result<()> and the document it leaves: [ok, contents, err]
insert_prompt_node(contents) ==
    LET r == extract_node_order(contents) IN
    IF ~r.ok THEN [ ok |-> FALSE, contents |-> contents, err |-> r.err ]
    ELSE IF r.nodes[1] = "prompt2flow"
    THEN [ ok |-> TRUE, contents |-> contents, err |-> None ]
    ELSE IF Position(r.nodes, "prompt2flow") >= 0
    THEN [ ok |-> FALSE, contents |-> contents,
           err |-> Some([ what |-> "prompt2flow exists but is not the first node",
                          index |-> Position(r.nodes, "prompt2flow") ]) ]
    ELSE LET insert_pos == FindNodesMarker(contents) IN
         [ ok |-> TRUE,
           contents |-> SubSeq(contents, 1, insert_pos)
                          \o PromptSnippet(r.nodes[1])
                          \o SubSeq(contents, insert_pos + 1, Len(contents)),
           err |-> None ]

----------------------------------------------------------------------------
(* Inputs *)

CardIds == { "A", "B", "C" }
TwoFlowCardIds == { "A", "B" }

RECURSIVE SeqsUpTo(_, _)
SeqsUpTo(S, n) ==
    IF n = 0 THEN { << >> }
    ELSE LET shorter == SeqsUpTo(S, n - 1) IN
         shorter \cup { Append(q, x) : q \in { r \in shorter : Len(r) = n - 1 }, x \in S }

RouteAction(target) == [ title |-> None, target |-> Some(target) ]

CardDoc(card_id, actions) ==
    [ card_id |-> card_id, rel_path |-> card_id \o ".json", actions |-> actions ]

\* the ways to give the cards `keys`, in order, actions drawn from
\* `actionSet`, at most n in all
RECURSIVE ActionLists(_, _, _)
ActionLists(keys, actionSet, n) ==
    IF keys = << >> THEN { << >> }
    ELSE UNION { { << q >> \o rest :
                     rest \in ActionLists(Tail(keys), actionSet, n - Len(q)) } :
                 q \in SeqsUpTo(actionSet, n) }

\* the FlowGroups over the card ids `ids` whose actions are drawn from
\* `actionSet`, with at most n actions in all, cards sorted by relative path
FlowGroups(flow_name, ids, actionSet, n) ==
    UNION { { [ flow_name |-> flow_name,
                cards |-> [ i \in 1..Len(acts) |->
                              CardDoc(SortedKeys(present)[i], acts[i]) ] ] :
                acts \in ActionLists(SortedKeys(present), actionSet, n) } :
            present \in (SUBSET ids) \ { {} } }

RECURSIVE GroupEdgesFrom(_, _)
GroupEdgesFrom(group, i) ==
    IF i > Len(group.cards) THEN 0
    ELSE Len(group.cards[i].actions) + GroupEdgesFrom(group, i + 1)

GroupEdges(group) == GroupEdgesFrom(group, 1)

RouteActions(ids) == { RouteAction(t) : t \in ids }

NoGraph == [ flow_name |-> "", nodes |-> << >>, warnings |-> << >> ]

InitRun(manifests) ==
    /\ strict \in BOOLEAN
    /\ flows \in manifests
    /\ flowIdx = 1
    /\ pc = "build"
    /\ graph = NoGraph
    /\ error = None
    /\ order = << >>
    /\ created = {}
    /\ warnings = << >>
    /\ calls = << >>
    /\ tmp = << >>
    /\ files = << >>
    /\ run = 1
    /\ written = << >>
    /\ manifest_warnings = << >>

\* the flows are given: no directory is scanned
InitNoScan ==
    /\ cards_dir = << >>
    /\ walk = << >>
    /\ group_by = None
    /\ default_flow = None

InitNoMerge ==
    /\ doc0 = << >>
    /\ doc = << >>
    /\ block = << >>
    /\ primary = FALSE
    /\ rounds = 0

----------------------------------------------------------------------------
(* A generation run: generate's loop over the flows (workspace.rs 100-138) *)

BuildGraph ==
    /\ pc = "build"
    /\ LET r == build_flow_graph(flows[flowIdx], strict) IN
       IF r.ok
       THEN /\ graph' = r.graph[1]
            /\ pc' = "scaffold"
            /\ error' = None
            /\ manifest_warnings' = manifest_warnings \o r.graph[1].warnings
       ELSE /\ graph' = NoGraph
            /\ pc' = "failed"
            /\ error' = r.err
            /\ manifest_warnings' = manifest_warnings
    /\ UNCHANGED << strict, flows, flowIdx, order, created, warnings, calls, tmp,
                    files, run, written, mergeVars, scanVars >>

\* a non-zero exit that is not turned into an error
ToolFailedUnreported(call) == None

\* run_greentic_flow: bail!("greentic-flow command failed: ...")
ToolFailed(call) ==
    Some([ what |-> "greentic-flow command failed", target |-> call.node_id,
           card |-> call.cmd, flow |-> graph.flow_name ])

OldScaffold(flow_name) == IF flow_name \in DOMAIN tmp THEN tmp[flow_name] ELSE << >>

\* greentic-flow new ... --force exits 0
ScaffoldOk ==
    /\ pc = "scaffold"
    /\ calls' = << NewCall(graph.flow_name) >>
    /\ tmp' = MapPut(tmp, graph.flow_name,
                     ScaffoldNew(OldScaffold(graph.flow_name), NewCall(graph.flow_name)))
    /\ warnings' = << >>
    /\ order' = resolve_node_order(graph)
    /\ created' = {}
    /\ pc' = "nodes"
    /\ UNCHANGED << strict, flows, flowIdx, graph, error, files, run, written,
                    manifest_warnings, mergeVars, scanVars >>

\* greentic-flow new exits non-zero
ScaffoldFail ==
    /\ pc = "scaffold"
    /\ calls' = << NewCall(graph.flow_name) >>
    /\ pc' = "failed"
    /\ error' = ToolFailed(NewCall(graph.flow_name))
    /\ UNCHANGED << strict, flows, flowIdx, graph, order, created, warnings, tmp,
                    files, run, written, manifest_warnings, mergeVars, scanVars >>

\* what one iteration of the loop over `order` computes before its call
StepOf(node_id) ==
    LET node == graph.nodes[node_id]
        rr == resolve_routes(node, created)
        w1 == warnings \o
              [ i \in 1..Len(rr.skipped) |->
                  warning("Inconsistent", "routing omitted due to ordering",
                          node_id, rr.skipped[i], "") ]
        w2 == IF node.card_path = None
              THEN Append(w1, warning("MissingTarget", "stub node emitted without card_path",
                                      node_id, "", ""))
              ELSE w1
        card_path_value == IF node.card_path = None THEN "TODO" ELSE node.card_path[1]
        payload == build_card_payload(node_id, card_path_value, node.routes # << >>)
        routing == push_routing_flags(node_id, rr.routes)
    IN [ skipped |-> rr.skipped,
         call |-> AddStepCall(node_id, payload, routing),
         warnings |-> w2 \o routing.warnings ]

\* strict mode: a skipped route ends the pass before the node's call
AddStepBail ==
    /\ pc = "nodes" /\ order # << >>
    /\ strict /\ StepOf(Head(order)).skipped # << >>
    /\ pc' = "failed"
    /\ error' = Some([ what |-> "unable to emit routing due to cycle/ordering",
                       target |-> Join(StepOf(Head(order)).skipped),
                       card |-> Head(order), flow |-> graph.flow_name ])
    /\ UNCHANGED << strict, flows, flowIdx, graph, order, created, warnings, calls,
                    tmp, files, run, written, manifest_warnings, mergeVars, scanVars >>

\* greentic-flow add-step exits 0
AddStepOk ==
    /\ pc = "nodes" /\ order # << >>
    /\ ~(strict /\ StepOf(Head(order)).skipped # << >>)
    /\ calls' = Append(calls, StepOf(Head(order)).call)
    /\ tmp' = [ tmp EXCEPT ![graph.flow_name] =
                  ScaffoldAddStep(@, StepOf(Head(order)).call) ]
    /\ warnings' = StepOf(Head(order)).warnings
    /\ created' = created \cup { Head(order) }
    /\ order' = Tail(order)
    /\ UNCHANGED << strict, flows, flowIdx, pc, graph, error, files, run, written,
                    manifest_warnings, mergeVars, scanVars >>

\* greentic-flow add-step exits non-zero
AddStepFail ==
    /\ pc = "nodes" /\ order # << >>
    /\ ~(strict /\ StepOf(Head(order)).skipped # << >>)
    /\ calls' = Append(calls, StepOf(Head(order)).call)
    /\ warnings' = StepOf(Head(order)).warnings
    /\ pc' = "failed"
    /\ error' = ToolFailed(StepOf(Head(order)).call)
    /\ UNCHANGED << strict, flows, flowIdx, graph, order, created, tmp, files, run,
                    written, manifest_warnings, mergeVars, scanVars >>

\* the scaffold is read back, merged and written; generate goes to its next flow
Finish ==
    /\ pc = "nodes" /\ order = << >>
    /\ LET generated == trim_end(tmp[graph.flow_name])
           path == EmitPath(graph.flow_name)
           next_contents == NextContents(files, path, Block(generated))
       IN /\ files' = MapPut(files, path, next_contents)
          /\ written' = Append(written, [ run |-> run, flow |-> graph.flow_name,
                                          path |-> path, text |-> next_contents ])
    /\ manifest_warnings' = manifest_warnings \o warnings
    /\ IF flowIdx < Len(flows)
       THEN flowIdx' = flowIdx + 1 /\ pc' = "build"
       ELSE flowIdx' = flowIdx /\ pc' = "done"
    /\ UNCHANGED << strict, flows, graph, error, order, created, warnings, calls,
                    tmp, run, mergeVars, scanVars >>

\* the command is run again on the same cards and the same workspace
Rerun ==
    /\ pc \in { "done", "failed" }
    /\ run < MaxRuns
    /\ run' = run + 1
    /\ flowIdx' = 1
    /\ pc' = "build"
    /\ graph' = NoGraph
    /\ error' = None
    /\ order' = << >>
    /\ created' = {}
    /\ warnings' = << >>
    /\ calls' = << >>
    /\ manifest_warnings' = << >>
    /\ UNCHANGED << strict, flows, tmp, files, written, mergeVars, scanVars >>

Next ==
    \/ BuildGraph
    \/ ScaffoldOk
    \/ ScaffoldFail
    \/ AddStepBail
    \/ AddStepOk
    \/ AddStepFail
    \/ Finish
    \/ Rerun

\* one flow of up to three cards
Init ==
    /\ InitRun({ << g >> : g \in FlowGroups("main", CardIds, RouteActions(CardIds), MaxEdges) })
    /\ InitNoScan
    /\ InitNoMerge

Spec == Init /\ [][Next]_vars

\* two flows of up to two cards each
TwoFlowManifests ==
    { m \in FlowGroups("alpha", TwoFlowCardIds, RouteActions(TwoFlowCardIds), MaxEdges)
            \X FlowGroups("beta", TwoFlowCardIds, RouteActions(TwoFlowCardIds), MaxEdges) :
        GroupEdges(m[1]) + GroupEdges(m[2]) <= MaxEdges }

InitGen ==
    /\ InitRun(TwoFlowManifests)
    /\ InitNoScan
    /\ InitNoMerge

SpecGen == InitGen /\ [][Next]_vars

----------------------------------------------------------------------------
(* The graph builder on its own: build_flow_graph applied to a FlowGroup *)

GraphCardIds == { "A", "X" }

\* actions as the scanner leaves them: no target, an empty or a named target,
\* with or without a title
GraphActions ==
    { [ title |-> None, target |-> None ],
      [ title |-> None, target |-> Some("") ],
      [ title |-> Some(""), target |-> Some("") ],
      [ title |-> Some("T"), target |-> Some("") ],
      [ title |-> None, target |-> Some("A") ],
      [ title |-> None, target |-> Some("X") ],
      [ title |-> Some("T"), target |-> Some("X") ],
      [ title |-> None, target |-> Some("X-2") ] }

InitGraph ==
    /\ InitRun({ << g >> : g \in FlowGroups("main", GraphCardIds, GraphActions, MaxEdges) })
    /\ InitNoScan
    /\ InitNoMerge

NextGraph == BuildGraph

SpecGraph == InitGraph /\ [][NextGraph]_vars

----------------------------------------------------------------------------
(* The merge on its own: the merge functions applied to a document *)

\* what a hand-edited document is made of: the markers, newlines, spaces
\* and other text
DocTokens == { BEGIN_MARKER, END_MARKER, NL, SP, "x" }

\* the GENERATED contents of successive passes
GeneratedTexts == { << "g1" >>, << "g2" >> }

InitIdleRun ==
    /\ strict = FALSE
    /\ flows = << >>
    /\ flowIdx = 1
    /\ pc = "idle"
    /\ graph = NoGraph
    /\ error = None
    /\ order = << >>
    /\ created = {}
    /\ warnings = << >>
    /\ calls = << >>
    /\ tmp = << >>
    /\ files = << >>
    /\ run = 1
    /\ written = << >>
    /\ manifest_warnings = << >>

InitMerge ==
    /\ InitIdleRun
    /\ InitNoScan
    /\ doc0 \in SeqsUpTo(DocTokens, MaxLen)
    /\ doc = doc0
    /\ block = << >>
    /\ primary \in BOOLEAN
    /\ rounds = 0

\* a regeneration of the primary document
MergeMain ==
    /\ primary
    /\ rounds < MaxRounds
    /\ \E g \in GeneratedTexts :
          /\ block' = Block(g)
          /\ doc' = merge_main_flow(doc, Block(g))
    /\ rounds' = rounds + 1
    /\ UNCHANGED << runVars, scanVars, doc0, primary >>

\* a regeneration of a document that is not the primary one
MergeOther ==
    /\ ~primary
    /\ rounds < MaxRounds
    /\ \E g \in GeneratedTexts :
          /\ block' = Block(g)
          /\ doc' = replace_generated_block(doc, Block(g))
    /\ rounds' = rounds + 1
    /\ UNCHANGED << runVars, scanVars, doc0, primary >>

NextMerge ==
    \/ MergeMain
    \/ MergeOther

SpecMerge == InitMerge /\ [][NextMerge]_vars

----------------------------------------------------------------------------
(* The scanner on its own: scan_cards applied to a cards directory *)

\* an element of an "actions" array that is an object
ScanAction(title, cardId, flow, step) ==
    [ is_object |-> TRUE, title |-> title, cardId |-> cardId, flow |-> flow,
      step |-> step ]

\* an element of an "actions" array that is not an object
NonObjectAction ==
    [ is_object |-> FALSE, title |-> None, cardId |-> None, flow |-> None,
      step |-> None ]

\* a readable file holding a JSON object: its string "type", whether it has
\* the keys "actions" and "body", its actions, and greentic.cardId / .flow
ObjectFile(type, has_actions, has_body, actions, greentic_cardId, greentic_flow) ==
    [ readable |-> TRUE, json |-> "object", type |-> type,
      has_actions |-> has_actions, has_body |-> has_body, actions |-> actions,
      greentic_cardId |-> greentic_cardId, greentic_flow |-> greentic_flow ]

\* a file that cannot be read, holds no JSON ("invalid"), or holds JSON that
\* is not an object ("other")
OtherFile(readable, json) ==
    [ readable |-> readable, json |-> json, type |-> None, has_actions |-> FALSE,
      has_body |-> FALSE, actions |-> << >>, greentic_cardId |-> None,
      greentic_flow |-> None ]

PlainCard == ObjectFile(Some("AdaptiveCard"), FALSE, FALSE, << >>, None, None)

ScanFiles ==
    { OtherFile(FALSE, "object"),
      OtherFile(TRUE, "invalid"),
      OtherFile(TRUE, "other"),
      ObjectFile(None, FALSE, FALSE, << >>, None, None),
      ObjectFile(Some("Other"), TRUE, FALSE,
                 << ScanAction(None, None, None, Some("B")) >>, None, None),
      ObjectFile(None, FALSE, TRUE, << >>, None, None),
      PlainCard,
      ObjectFile(Some("AdaptiveCard"), TRUE, TRUE,
                 << ScanAction(None, Some("B"), None, None),
                    ScanAction(None, Some("A"), None, None) >>, None, None),
      ObjectFile(Some("AdaptiveCard"), TRUE, FALSE,
                 << ScanAction(None, None, Some("g"), None),
                    ScanAction(None, None, Some("f"), None) >>, Some("B"), None),
      ObjectFile(Some("AdaptiveCard"), TRUE, FALSE,
                 << ScanAction(None, Some("A"), Some("f"), None),
                    ScanAction(None, Some("A"), Some("f"), None) >>,
                 Some("B"), Some("g")),
      ObjectFile(None, TRUE, FALSE,
                 << NonObjectAction, ScanAction(Some("T"), None, None, Some("B")) >>,
                 None, Some("g")),
      ObjectFile(None, TRUE, FALSE, << >>, Some("A"), None) }

\* the directories of at most n files: .json files hold any of `contents`
Directories(contents, n) ==
    UNION { { d \in [ S -> contents ] :
                \A p \in S : PathInfo[p].ext # "json" => d[p] = PlainCard } :
            S \in { T \in SUBSET DOMAIN PathInfo : Cardinality(T) <= n } }

\* the orders in which a directory walk can yield the files
Walks(S) ==
    { w \in [ 1..Cardinality(S) -> S ] :
        \A i, j \in 1..Cardinality(S) : i # j => w[i] # w[j] }

InitScanRun ==
    /\ flows = << >>
    /\ flowIdx = 1
    /\ pc = "scan"
    /\ graph = NoGraph
    /\ error = None
    /\ order = << >>
    /\ created = {}
    /\ warnings = << >>
    /\ calls = << >>
    /\ tmp = << >>
    /\ files = << >>
    /\ run = 1
    /\ written = << >>
    /\ manifest_warnings = << >>

InitScan ==
    /\ strict \in BOOLEAN
    /\ cards_dir \in Directories(ScanFiles, MaxFiles)
    /\ walk \in Walks(DOMAIN cards_dir)
    /\ group_by \in { None, Some("Folder"), Some("FlowField") }
    /\ default_flow \in { None, Some("main") }
    /\ InitScanRun
    /\ InitNoMerge

\* generate: let mut manifest = scan_cards(&scan_config)?
ScanCards ==
    /\ pc = "scan"
    /\ \E r \in { scan_cards(ScanConfig(group_by, default_flow, strict), cards_dir, walk) } :
       IF r.ok
       THEN /\ flows' = r.flows
            /\ manifest_warnings' = r.warnings
            /\ error' = None
            /\ pc' = IF r.flows = << >> THEN "done" ELSE "build"
       ELSE /\ flows' = << >>
            /\ manifest_warnings' = << >>
            /\ error' = r.err
            /\ pc' = "failed"
    /\ UNCHANGED << strict, flowIdx, graph, order, created, warnings, calls, tmp,
                    files, run, written, mergeVars, scanVars >>

NextScan == ScanCards

SpecScan == InitScan /\ [][NextScan]_vars

----------------------------------------------------------------------------
(* A whole generation run: scan, then build and emit every flow *)

\* a card of type AdaptiveCard whose actions route to the steps `steps`
StepCard(steps) ==
    ObjectFile(Some("AdaptiveCard"), steps # << >>, TRUE,
               [ k \in 1..Len(steps) |-> ScanAction(None, None, None, Some(steps[k])) ],
               None, None)

\* a card whose only action carries data.cardId = card_id and no data.step
CardIdCard(card_id) ==
    ObjectFile(Some("AdaptiveCard"), TRUE, TRUE,
               << ScanAction(None, Some(card_id), None, None) >>, None, None)

RunFiles ==
    { PlainCard,
      CardIdCard("A"),
      StepCard(<< "A" >>),
      StepCard(<< "B" >>),
      StepCard(<< "X" >>),
      StepCard(<< "X", "C" >>),
      StepCard(<< "A", "A" >>),
      ObjectFile(None, FALSE, FALSE, << >>, None, None),
      ObjectFile(Some("AdaptiveCard"), TRUE, TRUE,
                 << ScanAction(None, Some("B"), None, None),
                    ScanAction(None, Some("A"), None, None) >>, None, None) }

InitRunScan ==
    /\ strict \in BOOLEAN
    /\ cards_dir \in Directories(RunFiles, MaxFiles)
    /\ walk \in Walks(DOMAIN cards_dir)
    /\ group_by = None
    /\ default_flow = Some("main")
    /\ InitScanRun
    /\ InitNoMerge

NextRun ==
    \/ ScanCards
    \/ BuildGraph
    \/ ScaffoldOk
    \/ ScaffoldFail
    \/ AddStepBail
    \/ AddStepOk
    \/ AddStepFail
    \/ Finish

SpecRun == InitRunScan /\ [][NextRun]_vars

\* the same run, with or without --default-flow
InitRunDefaults ==
    /\ strict \in BOOLEAN
    /\ cards_dir \in Directories(RunFiles, MaxFiles)
    /\ walk \in Walks(DOMAIN cards_dir)
    /\ group_by = None
    /\ default_flow \in { None, Some("main") }
    /\ InitScanRun
    /\ InitNoMerge

SpecRunDefaults == InitRunDefaults /\ [][NextRun]_vars

----------------------------------------------------------------------------
(* The prompt node on its own: insert_prompt_node applied to a document *)

\* the node names of a flow document
PromptNodeNames == { "start", "follow", "prompt2flow", "end" }

\* what a node's entry holds under its name: component.exec as in BASE_FLOW,
\* a routing list, a routing list to prompt2flow, nothing; with or without a
\* blank line after it
PromptNodeBodies ==
    { << >>,
      << Line(4, "key", "component.exec"), Line(6, "text", "component: dummy") >>,
      << Line(4, "key", "routing"), Line(4, "dash", "follow"), BlankLine >>,
      << Line(4, "key", "routing"), Line(4, "dash", "prompt2flow") >> }

\* what stands before the nodes: nothing, the BEGIN marker and the flow's id,
\* with the "nodes:" line or (a document without nodes section) without it
PromptHeaders ==
    { << Line(0, "key", "nodes") >>,
      << Line(0, "comment", "BEGIN GENERATED"), Line(0, "text", "id: main"),
         Line(0, "key", "nodes") >>,
      << Line(0, "comment", "BEGIN GENERATED"), Line(0, "text", "id: main") >> }

\* what stands after the nodes: nothing, the END marker, the END marker and
\* the commented developer space emit_flow keeps below it
PromptTrailers ==
    { << >>,
      << Line(0, "comment", "END GENERATED") >>,
      << Line(0, "comment", "END GENERATED"), BlankLine,
         Line(0, "comment", "Developer space below"),
         Line(0, "comment", "nodes:"),
         Line(0, "comment", "  prompt2flow:") >> }

RECURSIVE NodeEntries(_, _, _)
NodeEntries(names, bodies, i) ==
    IF i > Len(names) THEN << >>
    ELSE << Line(2, "key", names[i]) >> \o bodies[i]
           \o NodeEntries(names, bodies, i + 1)

\* the flow documents: a header, up to MaxNodes nodes of distinct names, a
\* trailer
PromptDocuments ==
    { h \o NodeEntries(x[1], x[2], 1) \o t :
        h \in PromptHeaders, t \in PromptTrailers,
        x \in UNION { { << names, bodies >> : bodies \in [ 1..Len(names) -> PromptNodeBodies ] } :
                        names \in { s \in SeqsUpTo(PromptNodeNames, MaxNodes) :
                                      \A i, j \in 1..Len(s) : s[i] = s[j] => i = j } } }

InitPrompt ==
    /\ InitIdleRun
    /\ InitNoScan
    /\ doc0 \in PromptDocuments
    /\ doc = doc0
    /\ block = << >>
    /\ primary = TRUE
    /\ rounds = 0

\* generate: insert_prompt_node(&path)? on the primary flow document
InsertPrompt ==
    /\ rounds < MaxRounds
    /\ LET r == insert_prompt_node(doc) IN
          /\ doc' = r.contents
          /\ error' = r.err
    /\ rounds' = rounds + 1
    /\ UNCHANGED << strict, flows, flowIdx, pc, graph, order, created, warnings,
                    calls, tmp, files, run, written, manifest_warnings, scanVars,
                    doc0, block, primary >>

NextPrompt == InsertPrompt

SpecPrompt == InitPrompt /\ [][NextPrompt]_vars

----------------------------------------------------------------------------
(* Properties of a generation run *)

RouteTargets(node) == [ i \in 1..Len(node.routes) |-> node.routes[i].target ]

Succ(g, n) == Range(RouteTargets(g.nodes[n]))

RECURSIVE Closure(_, _)
Closure(g, S) ==
    LET T == S \cup UNION { Succ(g, n) : n \in S \cap DOMAIN g.nodes } IN
    IF T = S THEN S ELSE Closure(g, T)

OnCycle(g, n) == n \in Closure(g, Succ(g, n))

Acyclic(g) == \A n \in DOMAIN g.nodes : ~OnCycle(g, n)

\* {A routes to B, B routes to C, C has no routes}
IsChain(g) ==
    /\ DOMAIN g.nodes = { "A", "B", "C" }
    /\ RouteTargets(g.nodes["A"]) = << "B" >>
    /\ RouteTargets(g.nodes["B"]) = << "C" >>
    /\ RouteTargets(g.nodes["C"]) = << >>

\* two cards that route to each other, and nothing else
IsTwoCycle(g) ==
    \E a, b \in DOMAIN g.nodes :
        /\ a # b
        /\ DOMAIN g.nodes = { a, b }
        /\ ~g.nodes[a].stub /\ ~g.nodes[b].stub
        /\ RouteTargets(g.nodes[a]) = << b >>
        /\ RouteTargets(g.nodes[b]) = << a >>

\* the order has just been resolved and no node is emitted yet
FreshOrder == pc = "nodes" /\ Len(calls) = 1

OrderingWarnings ==
    SelectSeq(warnings, LAMBDA w : w.what = "routing omitted due to ordering")

OrderingError ==
    error # None /\ error[1].what = "unable to emit routing due to cycle/ordering"

ToolError == error # None /\ error[1].what = "greentic-flow command failed"

AddSteps == SelectSeq(calls, LAMBDA c : c.cmd = "add-step")

\* the GENERATED region of a document: begin marker through end marker
GeneratedRegion(txt) ==
    LET start == Find(txt, BEGIN_MARKER) IN
    IF start = 0 \/ FindFrom(txt, start, END_MARKER) = 0 THEN << >>
    ELSE SubSeq(txt, start, FindFrom(txt, start, END_MARKER))

\* C1: two strict runs over the same cards leave the same GENERATED region,
\* begin marker through end marker, in the persistent document.
C1_Idempotence ==
    strict =>
      \A i, j \in 1..Len(written) :
          written[i].run # written[j].run =>
            /\ GeneratedRegion(written[i].text) # << >>
            /\ GeneratedRegion(written[i].text) = GeneratedRegion(written[j].text)

C1_Witness ==
    /\ strict /\ pc = "done" /\ run = 2 /\ Len(written) = 2
    /\ IsChain(graph)

\* C5: two cards routing to each other: strict emission never completes and
\* writes nothing; lenient emission fails only on a flow-compiler failure and,
\* completed, has dropped one edge with one ordering warning and rendered the
\* other as a next-target directive.
C5_CycleHandling ==
    IsTwoCycle(graph) =>
      /\ strict => /\ pc # "done"
                   /\ files = << >> /\ written = << >>
                   /\ OrderingError => AddSteps = << >>
      /\ ~strict => ~OrderingError
      /\ (~strict /\ pc = "done") =>
            /\ Len(OrderingWarnings) = 1
            /\ Len(AddSteps) = 2
            /\ AddSteps[1].flag = "--routing-out"
            /\ AddSteps[2].flag = "--routing-next"
            /\ AddSteps[2].arg = AddSteps[1].node_id
            /\ OrderingWarnings[1].a = AddSteps[1].node_id
            /\ OrderingWarnings[1].b = AddSteps[2].node_id

C5_Witness == IsTwoCycle(graph) /\ ~strict /\ pc = "done"

\* C6 as claimed: the chain A -> B -> C is ordered A, B, C.
C6_Original ==
    (FreshOrder /\ IsChain(graph)) => order = << "A", "B", "C" >>

\* C6 amended: the chain A -> B -> C is ordered C, B, A: a node is output
\* after the successors it routes to.
C6_ChainOrder ==
    (FreshOrder /\ IsChain(graph)) =>
      /\ order = << "C", "B", "A" >>
      /\ \A i, j \in 1..Len(order) :
            order[j] \in Succ(graph, order[i]) => j < i

C6_Witness == FreshOrder /\ IsChain(graph) /\ Len(order) = 3

\* C7: in a graph without a cycle every edge is rendered: no route is
\* skipped, no ordering warning or ordering error arises, and the chain
\* A -> B -> C is emitted as C terminal, B next C, A next B.
C7_AcyclicRendersAll ==
    Acyclic(graph) =>
      /\ OrderingWarnings = << >>
      /\ ~OrderingError
      /\ \A i \in 1..Len(calls) :
            calls[i].cmd = "add-step" =>
              calls[i].targets = RouteTargets(graph.nodes[calls[i].node_id])
      /\ (IsChain(graph) /\ pc = "done") =>
            /\ Len(AddSteps) = 3
            /\ \E i \in 1..3 : /\ AddSteps[i].node_id = "A"
                               /\ AddSteps[i].flag = "--routing-next"
                               /\ AddSteps[i].arg = "B"
            /\ \E i \in 1..3 : /\ AddSteps[i].node_id = "B"
                               /\ AddSteps[i].flag = "--routing-next"
                               /\ AddSteps[i].arg = "C"
            /\ \E i \in 1..3 : /\ AddSteps[i].node_id = "C"
                               /\ AddSteps[i].flag = "--routing-out"

C7_Witness == IsChain(graph) /\ strict /\ pc = "done"

\* C8: a node with two or more resolvable targets gets the multi-target
\* directive listing exactly those targets, comma-joined, in the order of the
\* node's edges.
C8_MultiRouteOrder ==
    \A i \in 1..Len(calls) :
        calls[i].cmd = "add-step" =>
          LET earlier == { calls[j].node_id : j \in 2..(i - 1) }
              resolvable == SelectSeq(RouteTargets(graph.nodes[calls[i].node_id]),
                                      LAMBDA t : t \in earlier)
          IN Len(resolvable) >= 2 =>
               /\ calls[i].flag = "--routing-multi-to"
               /\ calls[i].targets = resolvable
               /\ calls[i].arg = Join(resolvable)
               /\ resolvable = << "C", "B" >> => calls[i].arg = "C,B"
               /\ resolvable = << "C", "B", "C" >> => calls[i].arg = "C,B,C"

C8_Witness ==
    /\ pc = "done"
    /\ \E i \in 1..Len(calls) :
          calls[i].flag = "--routing-multi-to" /\ calls[i].arg = "C,B,C"

\* the flow whose GENERATED block a document holds: the id line of the scaffold
DocumentFlowId(txt) ==
    IF Len(GeneratedRegion(txt)) >= 3 THEN GeneratedRegion(txt)[3] ELSE ""

\* C4: after a run over several flows every flow has a persistent document
\* of its own under flows/ that holds the GENERATED block of that flow.
C4_OneDocumentPerFlow ==
    pc = "done" =>
      /\ \A i \in 1..Len(flows) :
            \E p \in DOMAIN files :
                DocumentFlowId(files[p]) = "id: " \o flows[i].flow_name
      /\ Cardinality(DOMAIN files) = Len(flows)

\* the nodes whose add-step call was issued before position k of the pass
IssuedBefore(k) ==
    { calls[j].node_id : j \in { i \in 1..(k - 1) : calls[i].cmd = "add-step" } }

\* C24: each target in the routing directive of an add-step call names a node
\* whose add-step call was issued earlier in the same pass; the directive holds
\* exactly the node's routes to such nodes; in lenient mode every other route
\* is omitted with an ordering warning; in strict mode nothing is omitted and
\* the pass fails before the add-step of a node with such a route.
C24_RenderedAfterCreation ==
    /\ \A k \in 1..Len(calls) :
         calls[k].cmd = "add-step" =>
           LET n == calls[k].node_id
               all == RouteTargets(graph.nodes[n])
           IN /\ Range(calls[k].targets) \subseteq IssuedBefore(k)
              /\ calls[k].targets = SelectSeq(all, LAMBDA x : x \in IssuedBefore(k))
              /\ IF strict
                 THEN calls[k].targets = all
                 ELSE Len(SelectSeq(OrderingWarnings, LAMBDA w : w.a = n))
                        = Len(all) - Len(calls[k].targets)
    /\ OrderingError =>
         /\ strict /\ pc = "failed"
         /\ \A k \in 1..Len(calls) : calls[k].node_id # error[1].card
         /\ \E x \in Succ(graph, error[1].card) : x \notin IssuedBefore(Len(calls) + 1)

C24_Witness ==
    /\ ~strict /\ pc = "done"
    /\ \E k \in 1..Len(calls) : Len(calls[k].targets) = 2
    /\ \E k \in 1..Len(calls) :
          /\ calls[k].cmd = "add-step"
          /\ calls[k].targets = << >>
          /\ Len(SelectSeq(OrderingWarnings, LAMBDA w : w.a = calls[k].node_id)) = 1

RoutingOutWarnings(n) ==
    SelectSeq(warnings, LAMBDA w : w.what = "no routes; using routing-out" /\ w.a = n)

\* the routing directive of a call: terminal, next-target or multi-target
Directive(call) ==
    IF call.flag = "--routing-out" /\ call.arg = "" THEN "terminal"
    ELSE IF call.flag = "--routing-next" /\ call.arg = call.targets[1] THEN "next-target"
    ELSE IF call.flag = "--routing-multi-to" /\ call.arg = Join(call.targets)
    THEN "multi-target"
    ELSE "none"

\* C25: an add-step call is terminal with no resolvable route, next-target
\* with one, multi-target with two or more; the terminal case records a
\* warning exactly when the node has routes, all of them skipped, and none
\* for a node without routes.
C25_DirectiveSelection ==
    \A k \in 1..Len(calls) :
      calls[k].cmd = "add-step" =>
        LET n == calls[k].node_id
            resolvable == SelectSeq(RouteTargets(graph.nodes[n]),
                                    LAMBDA x : x \in IssuedBefore(k))
        IN /\ Directive(calls[k]) =
                 IF Len(resolvable) = 0 THEN "terminal"
                 ELSE IF Len(resolvable) = 1 THEN "next-target"
                 ELSE "multi-target"
           /\ calls[k].targets = resolvable
           /\ Len(RoutingOutWarnings(n)) =
                 IF Len(resolvable) = 0 /\ graph.nodes[n].routes # << >> THEN 1 ELSE 0

\* the nodes not among the first k - 1 of the order whose routes all lead to
\* nodes among the first k - 1: the nodes ready at position k
ReadyAt(g, ord, k) ==
    { n \in (DOMAIN g.nodes) \ { ord[j] : j \in 1..(k - 1) } :
        Succ(g, n) \subseteq { ord[j] : j \in 1..(k - 1) } }

\* the first position of the order at which no node is ready
FirstStuck(g, ord) ==
    IF \E k \in 1..Len(ord) : ReadyAt(g, ord, k) = {}
    THEN CHOOSE k \in 1..Len(ord) :
            /\ ReadyAt(g, ord, k) = {}
            /\ \A j \in 1..(k - 1) : ReadyAt(g, ord, j) # {}
    ELSE Len(ord) + 1

\* C26: at each position the order holds the largest ready node (nodes with
\* no edges come out in descending name order); the nodes that never become
\* ready follow, all of them and only them, in ascending name order.
C26_TieBreakAndFallback ==
    FreshOrder =>
      LET stuck == FirstStuck(graph, order) IN
      /\ \A k \in 1..(stuck - 1) :
           /\ order[k] \in ReadyAt(graph, order, k)
           /\ \A n \in ReadyAt(graph, order, k) : Rank(n) <= Rank(order[k])
      /\ SubSeq(order, stuck, Len(order))
           = SortedKeys((DOMAIN graph.nodes) \ { order[j] : j \in 1..(stuck - 1) })
      /\ (\A n \in DOMAIN graph.nodes : graph.nodes[n].routes = << >>) =>
           \A i, j \in 1..Len(order) : i < j => Rank(order[i]) > Rank(order[j])

C26_Witness ==
    /\ FreshOrder
    /\ order = << "C", "A", "B" >>
    /\ FirstStuck(graph, order) = 2
    /\ Succ(graph, "A") = { "B" } /\ Succ(graph, "B") = { "A" }

\* the node ids of the add-step calls of the pass, in call order
AddStepIds == [ k \in 1..Len(AddSteps) |-> AddSteps[k].node_id ]

IsPermutationOf(s, S) ==
    /\ Range(s) = S
    /\ \A i, j \in 1..Len(s) : s[i] = s[j] => i = j

\* C27: resolve_node_order returns every node name of the graph exactly once
\* and no other name, whatever cycles, self-loops and repeated edges the
\* graph has; each node gets exactly one add-step call in a pass that
\* completes; the same graph gives the same sequence in every run.
C27_TotalOrder ==
    /\ FreshOrder => /\ IsPermutationOf(order, DOMAIN graph.nodes)
                     /\ order = resolve_node_order(graph)
    /\ pc = "nodes" => IsPermutationOf(AddStepIds \o order, DOMAIN graph.nodes)
    /\ (pc = "done" /\ calls # << >>) => IsPermutationOf(AddStepIds, DOMAIN graph.nodes)
    /\ (pc = "done" /\ run = 2 /\ Len(written) = 2) =>
          GeneratedRegion(written[1].text) = GeneratedRegion(written[2].text)

C27_Witness ==
    /\ pc = "done" /\ ~strict /\ run = 2 /\ Len(written) = 2
    /\ Cardinality(DOMAIN graph.nodes) = 3
    /\ \E n \in DOMAIN graph.nodes : n \in Succ(graph, n)
    /\ \E n \in DOMAIN graph.nodes :
          Len(graph.nodes[n].routes) = 2 /\ Cardinality(Succ(graph, n)) = 1

\* C28: a flow-compiler call that exits non-zero (scaffold or add-step, in
\* either mode) and a strict-mode ordering conflict end the pass with an
\* error; no call is issued after it until the command is run again; nothing
\* is written during a pass, so the persistent document keeps the content it
\* had before the pass.
C28_FailedEmissionWritesNothing ==
    [][ /\ (pc \in { "scaffold", "nodes" } /\ pc' = "failed") =>
              /\ error' # None
              /\ ToolError' \/ (strict /\ OrderingError')
              /\ files' = files /\ written' = written
        /\ (pc \in { "scaffold", "nodes" } /\ pc' \in { "scaffold", "nodes" }) =>
              files' = files /\ written' = written
        /\ pc = "failed" =>
              \/ (calls' = calls /\ files' = files /\ pc' = "failed")
              \/ (run' = run + 1 /\ files' = files /\ calls' = << >>)
      ]_vars

C28_Witness ==
    /\ pc = "failed" /\ run = 2
    /\ ToolError /\ error[1].card = "add-step"
    /\ Len(AddSteps) = 2
    /\ Len(written) = 1
    /\ files = (MainPath :> written[1].text)

\* C29: once the primary document has been generated, the next generation
\* from the same cards, with no edit in between, writes the same document,
\* the developer-space header and the commented lines below it included.
C29_WholeDocumentRepeatable ==
    Len(written) = 2 => written[2].text = written[1].text

----------------------------------------------------------------------------
(* Properties of the graph builder *)

GroupCardIds(group) == { group.cards[i].card_id : i \in 1..Len(group.cards) }

\* the targets of a card's actions, in action order
ActionTargets(card) ==
    LET targeted == SelectSeq(card.actions, LAMBDA a : a.target # None) IN
    [ k \in 1..Len(targeted) |-> targeted[k].target[1] ]

\* the (card, target) pairs whose target names no card of the group
DanglingPairs(group) ==
    { << group.cards[i].card_id, t >> :
        i \in 1..Len(group.cards), t \in { "", "A", "X", "X-2" } } \cap
    { p \in GraphCardIds \X { "", "A", "X", "X-2" } :
        /\ p[2] \notin GroupCardIds(group)
        /\ \E i \in 1..Len(group.cards) :
              /\ group.cards[i].card_id = p[1]
              /\ p[2] \in Range(ActionTargets(group.cards[i])) }

MissingTargetWarnings(g, target) ==
    SelectSeq(g.warnings,
              LAMBDA w : w.kind = "MissingTarget" /\ w.a = target)

\* C9: a target that names no card of the flow: lenient mode adds a stub node
\* of that name (stub, no asset path, no routes), one missing-target warning
\* naming a card that refers to it, and keeps every edge; strict mode returns
\* an error naming a referring card and its target, and no graph.
C9_DanglingTarget ==
    (pc # "build" /\ DanglingPairs(flows[1]) # {}) =>
      IF strict
      THEN /\ pc = "failed"
           /\ graph = NoGraph
           /\ error # None
           /\ error[1].what = "missing target"
           /\ << error[1].card, error[1].target >> \in DanglingPairs(flows[1])
      ELSE /\ pc = "scaffold"
           /\ error = None
           /\ \A p \in DanglingPairs(flows[1]) :
                 /\ p[2] \in DOMAIN graph.nodes
                 /\ graph.nodes[p[2]].name = p[2]
                 /\ graph.nodes[p[2]].stub
                 /\ graph.nodes[p[2]].card_path = None
                 /\ graph.nodes[p[2]].routes = << >>
                 /\ Len(MissingTargetWarnings(graph, p[2])) = 1
                 /\ << MissingTargetWarnings(graph, p[2])[1].b, p[2] >>
                       \in DanglingPairs(flows[1])
           /\ \A i \in 1..Len(flows[1].cards) :
                 RouteTargets(graph.nodes[flows[1].cards[i].card_id])
                   = ActionTargets(flows[1].cards[i])

C9_Witness ==
    /\ ~strict /\ pc = "scaffold"
    /\ << "A", "X-2" >> \in DanglingPairs(flows[1])
    /\ "X-2" \in DOMAIN graph.nodes
    /\ graph.nodes["X-2"].stub

\* C10: no node of a built graph has two outgoing edges with the same key.
C10_UniqueEdgeKeys ==
    pc = "scaffold" =>
      \A n \in DOMAIN graph.nodes :
          \A i, j \in 1..Len(graph.nodes[n].routes) :
              i # j => graph.nodes[n].routes[i].key # graph.nodes[n].routes[j].key

C10_Witness ==
    /\ pc = "scaffold"
    /\ \E n \in DOMAIN graph.nodes :
          /\ Len(graph.nodes[n].routes) = 3
          /\ graph.nodes[n].routes[1].key = "X"
          /\ graph.nodes[n].routes[2].key = "X-2"
          /\ graph.nodes[n].routes[3].key = "X-2-2"

\* the 1-based positions, among a card's actions, of the actions with a target
TargetedPositions(card) ==
    LET RECURSIVE From(_)
        From(p) == IF p > Len(card.actions) THEN << >>
                   ELSE (IF card.actions[p].target # None THEN << p >> ELSE << >>)
                        \o From(p + 1)
    IN From(1)

\* the label of a targeted action at 1-based position p: the target's name if
\* non-empty, else the title if non-empty, else action-<p>
EdgeLabel(action, p) ==
    IF action.target[1] # "" THEN action.target[1]
    ELSE IF action.title # None /\ action.title[1] # "" THEN action.title[1]
    ELSE "action-" \o ToString(p)

DuplicateKeyWarnings(g, card_id) ==
    SelectSeq(g.warnings,
              LAMBDA w : w.what = "duplicate route key; renamed" /\ w.b = card_id)

\* the edges whose label was already used by an earlier edge of the card
Collisions(card, routes) ==
    { k \in 1..Len(routes) :
        EdgeLabel(card.actions[TargetedPositions(card)[k]], TargetedPositions(card)[k])
          \in { routes[j].key : j \in 1..(k - 1) } }

\* C11: an edge whose label is already used on its source node is renamed to
\* label-n for the smallest n >= 2 with label-n unused on that node, with one
\* duplicate-route-key warning per renamed edge; two actions both routing to X
\* give the labels X and X-2 in that order.
C11_LabelCollision ==
    pc = "scaffold" =>
      \A i \in 1..Len(flows[1].cards) :
        LET card == flows[1].cards[i]
            routes == graph.nodes[card.card_id].routes
            pos == TargetedPositions(card)
            dups == DuplicateKeyWarnings(graph, card.card_id)
        IN /\ Len(routes) = Len(pos)
           /\ \A k \in Collisions(card, routes) :
                LET base == EdgeLabel(card.actions[pos[k]], pos[k])
                    prior == { routes[j].key : j \in 1..(k - 1) }
                IN \E n \in 2..(Len(routes) + 1) :
                      /\ routes[k].key = base \o "-" \o ToString(n)
                      /\ routes[k].key \notin prior
                      /\ \A m \in 2..(n - 1) : (base \o "-" \o ToString(m)) \in prior
                      /\ \E w \in 1..Len(dups) :
                            dups[w].a = base /\ dups[w].c = routes[k].key
           /\ Len(dups) = Cardinality(Collisions(card, routes))
           /\ \A w \in 1..Len(dups) : dups[w].kind = "Inconsistent"
           /\ ActionTargets(card) = << "X", "X" >> =>
                /\ routes[1].key = "X" /\ routes[2].key = "X-2"
                /\ Len(dups) = 1

C11_Witness ==
    /\ pc = "scaffold"
    /\ \E i \in 1..Len(flows[1].cards) :
          /\ ActionTargets(flows[1].cards[i]) = << "X", "X", "X" >>
          /\ RouteTargets(graph.nodes[flows[1].cards[i].card_id]) = << "X", "X", "X" >>
          /\ graph.nodes[flows[1].cards[i].card_id].routes[3].key = "X-3"
          /\ Len(DuplicateKeyWarnings(graph, flows[1].cards[i].card_id)) = 2

\* the labels of the edges that did not collide are the labels of their actions
UncollidedLabels(card, routes) ==
    \A k \in (1..Len(routes)) \ Collisions(card, routes) :
        routes[k].key = EdgeLabel(card.actions[TargetedPositions(card)[k]],
                                  TargetedPositions(card)[k])

\* C12 as claimed: a single action with an empty or an absent target and no
\* title gives one edge labelled action-1.
C12_Original ==
    pc = "scaffold" =>
      \A i \in 1..Len(flows[1].cards) :
        LET card == flows[1].cards[i]
            routes == graph.nodes[card.card_id].routes
        IN (/\ Len(card.actions) = 1
            /\ card.actions[1].title = None
            /\ card.actions[1].target \in { None, Some("") }) =>
              /\ Len(routes) = 1
              /\ routes[1].key = "action-1"

\* C12 amended: an action without a target gives no edge; an action with a
\* target is labelled by the target's name if non-empty, else by its title if
\* non-empty, else action-<n>, n its 1-based position among all the card's
\* actions; a single action with an empty target and no title gives action-1.
C12_SyntheticLabels ==
    pc = "scaffold" =>
      \A i \in 1..Len(flows[1].cards) :
        LET card == flows[1].cards[i]
            routes == graph.nodes[card.card_id].routes
        IN /\ Len(routes) = Len(TargetedPositions(card))
           /\ UncollidedLabels(card, routes)
           /\ (/\ Len(card.actions) = 1
               /\ card.actions[1].title = None
               /\ card.actions[1].target = Some("")) =>
                 /\ Len(routes) = 1
                 /\ routes[1].key = "action-1"
           /\ (Len(card.actions) = 1 /\ card.actions[1].target = None) =>
                 routes = << >>

C12_Witness ==
    /\ pc = "scaffold"
    /\ \E i \in 1..Len(flows[1].cards) :
          LET card == flows[1].cards[i]
              routes == graph.nodes[card.card_id].routes
          IN /\ Len(card.actions) = 3
             /\ card.actions[1].target = None
             /\ card.actions[2] = [ title |-> Some(""), target |-> Some("") ]
             /\ card.actions[3] = [ title |-> Some("T"), target |-> Some("") ]
             /\ Len(routes) = 2
             /\ routes[1].key = "action-2"
             /\ routes[2].key = "T"

----------------------------------------------------------------------------
(* Properties of the scanner *)

ScanDone == pc \in { "build", "done" }

\* the cards of the manifest
ManifestCards ==
    UNION { Range(flows[i].cards) : i \in 1..Len(flows) }

\* the data.cardId / data.flow values of a file's actions, in action order
DataCardIds(file) ==
    LET having == SelectSeq(file.actions, LAMBDA a : a.is_object /\ a.cardId # None) IN
    [ k \in 1..Len(having) |-> having[k].cardId[1] ]

DataFlows(file) ==
    LET having == SelectSeq(file.actions, LAMBDA a : a.is_object /\ a.flow # None) IN
    [ k \in 1..Len(having) |-> having[k].flow[1] ]

\* C13: the card id is the data.cardId of the card's actions when any action
\* has one; otherwise the top-level greentic.cardId when present; otherwise
\* the file name without extension.
C13_CardIdPriority ==
    ScanDone =>
      \A card \in ManifestCards :
        LET file == cards_dir[card.rel_path]
            ids == DataCardIds(file)
        IN IF ids # << >>
           THEN /\ card.card_id \in Range(ids)
                /\ Cardinality(Range(ids)) = 1 => card.card_id = ids[1]
           ELSE IF file.greentic_cardId # None
           THEN card.card_id = file.greentic_cardId[1]
           ELSE card.card_id = PathInfo[card.rel_path].stem

C13_Witness ==
    /\ ScanDone
    /\ \E card \in ManifestCards :
          /\ DataCardIds(cards_dir[card.rel_path]) = << "A", "A" >>
          /\ cards_dir[card.rel_path].greentic_cardId = Some("B")
          /\ card.rel_path = "B.json"
          /\ card.card_id = "A"
    /\ \E card \in ManifestCards :
          /\ DataCardIds(cards_dir[card.rel_path]) = << >>
          /\ cards_dir[card.rel_path].greentic_cardId = Some("B")
          /\ card.rel_path = "A.json"
          /\ card.card_id = "B"

\* the card files whose actions carry differing data.cardId or data.flow values
ConflictFiles ==
    { p \in DOMAIN cards_dir :
        /\ PathInfo[p].ext = "json"
        /\ cards_dir[p].readable /\ cards_dir[p].json = "object"
        /\ cards_dir[p].type = Some("AdaptiveCard")
        /\ \/ Cardinality(Range(DataCardIds(cards_dir[p]))) > 1
           \/ Cardinality(Range(DataFlows(cards_dir[p]))) > 1 }

ConflictWarnings(p, label) ==
    SelectSeq(manifest_warnings,
              LAMBDA w : w.what = "inconsistent values" /\ w.a = label /\ w.b = p)

\* C14: differing data.cardId (or data.flow) values in one card: strict
\* scanning fails; lenient scanning records one identity-conflict warning and
\* resolves to the first of the distinct values in sorted order, whatever the
\* order of the actions.
C14_IdentityConflict ==
    (pc # "scan" /\ ConflictFiles # {}) =>
      IF strict
      THEN pc = "failed"
      ELSE /\ ScanDone
           /\ \A p \in ConflictFiles :
                LET ids == DataCardIds(cards_dir[p])
                    fls == DataFlows(cards_dir[p])
                IN /\ Cardinality(Range(ids)) > 1 =>
                        /\ Len(ConflictWarnings(p, "cardId")) = 1
                        /\ \A card \in ManifestCards :
                              card.rel_path = p =>
                                card.card_id = SortedKeys(Range(ids))[1]
                   /\ Cardinality(Range(fls)) > 1 =>
                        /\ Len(ConflictWarnings(p, "flow")) = 1
                        /\ \A card \in ManifestCards :
                              card.rel_path = p =>
                                card.flow_name = SortedKeys(Range(fls))[1]

\* the files that are cards whichever way an explicit foreign type is read
PlainlyCards ==
    { p \in DOMAIN cards_dir :
        /\ PathInfo[p].ext = "json"
        /\ cards_dir[p].readable /\ cards_dir[p].json = "object"
        /\ \/ cards_dir[p].type = Some("AdaptiveCard")
           \/ cards_dir[p].type = None
                /\ (cards_dir[p].has_actions \/ cards_dir[p].has_body) }

\* the file has a folder: its relative path has at least two components
HasFolder(p) == Len(PathInfo[p].components) >= 2

\* no data.flow, no greentic.flow, no folder grouping, no default flow
NoFlowSource(p) ==
    /\ DataFlows(cards_dir[p]) = << >>
    /\ cards_dir[p].greentic_flow = None
    /\ ~(group_by = Some("Folder") /\ HasFolder(p))
    /\ default_flow = None

MissingFlowWarnings(p) ==
    SelectSeq(manifest_warnings, LAMBDA w : w.kind = "MissingFlow" /\ w.a = p)

\* C15: the flow name is the data.flow of the actions; else the top-level
\* greentic.flow; else, with group_by Folder and a path of two or more
\* components, the first path segment; else the default flow; else 'misc'
\* with a missing-flow warning in lenient mode and a failed scan in strict mode.
C15_FlowNamePriority ==
    /\ ScanDone =>
         \A i \in 1..Len(flows) : \A card \in Range(flows[i].cards) :
           LET file == cards_dir[card.rel_path]
               fls == DataFlows(file)
           IN /\ card.flow_name = flows[i].flow_name
              /\ IF fls # << >>
                 THEN /\ card.flow_name \in Range(fls)
                      /\ Cardinality(Range(fls)) = 1 => card.flow_name = fls[1]
                 ELSE IF file.greentic_flow # None
                 THEN card.flow_name = file.greentic_flow[1]
                 ELSE IF group_by = Some("Folder") /\ HasFolder(card.rel_path)
                 THEN card.flow_name = PathInfo[card.rel_path].components[1]
                 ELSE IF default_flow # None
                 THEN card.flow_name = default_flow[1]
                 ELSE /\ card.flow_name = "misc"
                      /\ ~strict
                      /\ Len(MissingFlowWarnings(card.rel_path)) = 1
    /\ (pc # "scan" /\ strict /\ \E p \in PlainlyCards : NoFlowSource(p)) =>
         pc = "failed"

C15_Witness ==
    /\ ScanDone
    /\ group_by = Some("Folder") /\ default_flow = Some("main")
    /\ Len(flows) = 2
    /\ flows[1].flow_name = "d" /\ flows[1].cards[1].rel_path = "d/A.json"
    /\ flows[2].flow_name = "main" /\ flows[2].cards[1].rel_path = "A.json"

\* the files that hold a JSON object
ObjectFiles ==
    { p \in DOMAIN cards_dir :
        /\ PathInfo[p].ext = "json"
        /\ cards_dir[p].readable /\ cards_dir[p].json = "object" }

DuplicateWarnings ==
    SelectSeq(manifest_warnings, LAMBDA w : w.kind = "DuplicateCardId")

\* the file was taken as a card: it is in a flow, or was dropped as a duplicate
KeptAsCard(p) ==
    \/ \E card \in ManifestCards : card.rel_path = p
    \/ \E k \in 1..Len(DuplicateWarnings) : DuplicateWarnings[k].c[2] = p

IgnoredWarnings(p) ==
    SelectSeq(manifest_warnings, LAMBDA w : w.kind = "IgnoredFile" /\ w.a = p)

\* C16 as claimed: an object is kept as a card iff its type is AdaptiveCard
\* or it has an actions key or it has a body key.
C16_Original ==
    ScanDone =>
      \A p \in ObjectFiles :
        /\ KeptAsCard(p) <=> \/ cards_dir[p].type = Some("AdaptiveCard")
                             \/ cards_dir[p].has_actions
                             \/ cards_dir[p].has_body
        /\ ~KeptAsCard(p) =>
              /\ Len(IgnoredWarnings(p)) = 1
              /\ \A card \in ManifestCards : card.rel_path # p

\* C16 amended: an object is kept as a card iff its type is the string
\* AdaptiveCard, or it has no string type and has an actions or a body key;
\* every other object, one with another type string included, is dropped
\* with one ignored-file warning and is in no flow.
C16_Classification ==
    ScanDone =>
      \A p \in ObjectFiles :
        /\ KeptAsCard(p) <=> \/ cards_dir[p].type = Some("AdaptiveCard")
                             \/ /\ cards_dir[p].type = None
                                /\ cards_dir[p].has_actions \/ cards_dir[p].has_body
        /\ ~KeptAsCard(p) =>
              /\ Len(IgnoredWarnings(p)) = 1
              /\ \A card \in ManifestCards : card.rel_path # p

C16_Witness ==
    /\ ScanDone
    /\ "A.json" \in ObjectFiles /\ "B.json" \in ObjectFiles
    /\ cards_dir["A.json"].type = Some("Other") /\ cards_dir["A.json"].has_actions
    /\ ~KeptAsCard("A.json")
    /\ cards_dir["B.json"].type = None /\ cards_dir["B.json"].has_body
    /\ KeptAsCard("B.json")

\* the cards of the walk, in walk order, before they are grouped
WalkedCards ==
    ScanEntries(cards_dir, walk, ScanConfig(group_by, default_flow, strict), 1,
                [ cards |-> << >>, warnings |-> << >>, err |-> None ])

\* the positions of the walked cards whose card id an earlier card of the
\* same flow already has
LaterOccurrences(cards) ==
    { k \in 1..Len(cards) :
        \E j \in 1..(k - 1) : /\ cards[j].flow_name = cards[k].flow_name
                              /\ cards[j].card_id = cards[k].card_id }

\* C17: no flow group of a scanned manifest holds two cards with the same
\* card id; a card whose id was already seen in its flow is dropped with one
\* duplicate-card-id warning in lenient mode and fails the scan in strict mode.
C17_UniqueCardIds ==
    /\ ScanDone =>
         \A i \in 1..Len(flows) : \A a, b \in 1..Len(flows[i].cards) :
             a # b => flows[i].cards[a].card_id # flows[i].cards[b].card_id
    /\ (pc # "scan" /\ WalkedCards.err = None /\ WalkedCards.cards # << >>) =>
         LET cards == WalkedCards.cards
             later == LaterOccurrences(cards)
         IN IF strict /\ later # {}
            THEN /\ pc = "failed"
                 /\ error # None /\ error[1].what = "duplicate card_id"
            ELSE /\ ScanDone
                 /\ ManifestCards = { cards[k] : k \in (1..Len(cards)) \ later }
                 /\ Len(DuplicateWarnings) = Cardinality(later)
                 /\ \A k \in later :
                       \E w \in 1..Len(DuplicateWarnings) :
                           /\ DuplicateWarnings[w].a = cards[k].card_id
                           /\ DuplicateWarnings[w].b = cards[k].flow_name
                           /\ DuplicateWarnings[w].c[2] = cards[k].rel_path

C17_Witness ==
    /\ ScanDone /\ ~strict
    /\ walk = << "d/A.json", "A.json" >>
    /\ Len(flows) = 1 /\ Len(flows[1].cards) = 1
    /\ flows[1].cards[1].rel_path = "d/A.json"
    /\ flows[1].cards[1].card_id = "A"
    /\ Len(DuplicateWarnings) = 1
    /\ DuplicateWarnings[1].c = << "d/A.json", "A.json" >>

\* C18: for a fixed directory every enumeration order gives the same scan
\* result: the same failure or success and the same flow groups with the same
\* cards in the same order, duplicate card ids included.
C18_WalkOrderIndependent ==
    pc # "scan" =>
      LET sorted == scan_cards(ScanConfig(group_by, default_flow, strict), cards_dir,
                               SortedKeys(DOMAIN cards_dir))
      IN /\ ScanDone <=> sorted.ok
         /\ ScanDone => flows = sorted.flows

\* the .json files that cannot be read, and those that hold no valid JSON
UnreadableFiles ==
    { p \in DOMAIN cards_dir : PathInfo[p].ext = "json" /\ ~cards_dir[p].readable }

MalformedFiles ==
    { p \in DOMAIN cards_dir :
        /\ PathInfo[p].ext = "json"
        /\ cards_dir[p].readable /\ cards_dir[p].json = "invalid" }

ParseWarnings(p) ==
    SelectSeq(manifest_warnings, LAMBDA w : w.kind = "InvalidJson" /\ w.a = p)

\* a warning that names the file p
Mentions(w, p) == w.a = p \/ w.b = p

\* C21: a .json file that cannot be read or holds no valid JSON aborts a
\* strict scan; a lenient scan skips it with one parse-error warning; a file
\* without the .json extension is skipped with no warning in either mode.
C21_ParseErrors ==
    pc # "scan" =>
      /\ (UnreadableFiles \cup MalformedFiles) # {} =>
            IF strict
            THEN pc = "failed"
            ELSE /\ ScanDone
                 /\ \A p \in UnreadableFiles \cup MalformedFiles :
                      /\ Len(ParseWarnings(p)) = 1
                      /\ \A card \in ManifestCards : card.rel_path # p
      /\ ScanDone =>
            \A p \in DOMAIN cards_dir :
              PathInfo[p].ext # "json" =>
                /\ \A card \in ManifestCards : card.rel_path # p
                /\ \A k \in 1..Len(manifest_warnings) : ~Mentions(manifest_warnings[k], p)

----------------------------------------------------------------------------
(* Properties of a whole run *)

\* the targets of a card's actions that name no card of the group
DanglingTargets(card, group) ==
    SelectSeq(ActionTargets(card), LAMBDA x : x \notin GroupCardIds(group))

\* the first element of a sequence that satisfies Test
FirstWhere(s, Test(_)) ==
    s[CHOOSE k \in 1..Len(s) : Test(s[k]) /\ \A j \in 1..(k - 1) : ~Test(s[j])]

\* the node's routes all lead to nodes that come before position k of the order
RoutesReady(g, ord, k) ==
    \A x \in Succ(g, ord[k]) : \E j \in 1..(k - 1) : ord[j] = x

ConditionWarnings ==
    SelectSeq(manifest_warnings,
              LAMBDA w : w.what \in { "missing target; creating stub",
                                      "routing omitted due to ordering",
                                      "inconsistent values",
                                      "duplicate card_id" })

\* C19: a strict run returns an error at the first identity conflict and at
\* the first duplicate card id of the walk, at the first missing target of
\* the flow's cards and actions, and at the first node of the emission order
\* with an unresolvable route, nothing later being processed; a strict run
\* that succeeds met none of these conditions and recorded no warning for one.
C19_StrictFirstOccurrence ==
    (strict /\ pc # "scan") =>
      /\ ConflictFiles # {} =>
            /\ pc = "failed" /\ flows = << >>
            /\ error[1].what = "inconsistent values"
            /\ error[1].rel_path = FirstWhere(walk, LAMBDA p : p \in ConflictFiles)
      /\ (ConflictFiles = {} /\ LaterOccurrences(WalkedCards.cards) # {}) =>
            /\ pc = "failed" /\ flows = << >>
            /\ error[1].what = "duplicate card_id"
            /\ \E k \in LaterOccurrences(WalkedCards.cards) :
                  /\ error[1].rel_path = WalkedCards.cards[k].rel_path
                  /\ \A j \in LaterOccurrences(WalkedCards.cards) : k <= j
      /\ (flows # << >> /\ pc # "build"
            /\ \E i \in 1..Len(flows[1].cards) :
                  DanglingTargets(flows[1].cards[i], flows[1]) # << >>) =>
            LET card == FirstWhere(flows[1].cards,
                                   LAMBDA c : DanglingTargets(c, flows[1]) # << >>)
            IN /\ pc = "failed"
               /\ error[1].what = "missing target"
               /\ error[1].card = card.card_id
               /\ error[1].target = DanglingTargets(card, flows[1])[1]
               /\ graph = NoGraph /\ calls = << >> /\ files = << >>
      /\ OrderingError =>
            LET ord == resolve_node_order(graph)
                k == CHOOSE k \in 1..Len(ord) :
                        ~RoutesReady(graph, ord, k)
                        /\ \A j \in 1..(k - 1) : RoutesReady(graph, ord, j)
            IN /\ pc = "failed"
               /\ error[1].card = ord[k]
               /\ [ j \in 1..Len(AddSteps) |-> AddSteps[j].node_id ] = SubSeq(ord, 1, k - 1)
               /\ files = << >>
      /\ pc = "done" =>
            /\ ConditionWarnings = << >>
            /\ ConflictFiles = {}
            /\ LaterOccurrences(WalkedCards.cards) = {}
            /\ \A i \in 1..Len(flows) : \A c \in 1..Len(flows[i].cards) :
                  DanglingTargets(flows[i].cards[c], flows[i]) = << >>
            /\ flows # << >> => Acyclic(graph)

C19_Witness ==
    /\ strict /\ pc = "failed" /\ OrderingError
    /\ error[1].card = "A"
    /\ Len(AddSteps) = 1 /\ AddSteps[1].node_id = "B"
    /\ files = << >>

\* C22: a strict run never completes with a recoverable condition recorded
\* only as a warning: a duplicate route key, a non-card JSON file, a terminal
\* node emitted with a warning and every other such condition abort it.
C22_StrictPromotesAll ==
    (strict /\ pc = "done") => manifest_warnings = << >>

\* the warnings of the run for a route of node n omitted for ordering
OmittedWarnings(n) ==
    SelectSeq(manifest_warnings,
              LAMBDA w : w.what = "routing omitted due to ordering" /\ w.a = n)

StubWarnings(target) ==
    SelectSeq(manifest_warnings,
              LAMBDA w : w.what = "missing target; creating stub" /\ w.a = target)

RenameWarnings(card_id) ==
    SelectSeq(manifest_warnings,
              LAMBDA w : w.what = "duplicate route key; renamed" /\ w.b = card_id)

\* C23: a lenient run fails only when the flow-compiler fails.  Each identity
\* conflict, missing flow identity and duplicate card id adds its warning and
\* the scan goes on with the next card; build_flow_graph returns a graph in
\* which every targeted action has its edge, with a warning per missing
\* target and per duplicate route key; an emission that meets no tool failure
\* issues one add-step per node, each omitted route with its ordering warning.
C23_LenientNeverAborts ==
    (~strict /\ pc # "scan") =>
      /\ pc = "failed" => ToolError
      /\ \A p \in ConflictFiles :
            /\ KeptAsCard(p)
            /\ Cardinality(Range(DataCardIds(cards_dir[p]))) > 1 =>
                  Len(ConflictWarnings(p, "cardId")) = 1
            /\ Cardinality(Range(DataFlows(cards_dir[p]))) > 1 =>
                  Len(ConflictWarnings(p, "flow")) = 1
      /\ \A p \in PlainlyCards :
            /\ KeptAsCard(p)
            /\ NoFlowSource(p) => Len(MissingFlowWarnings(p)) = 1
      /\ Len(DuplicateWarnings) = Cardinality(LaterOccurrences(WalkedCards.cards))
      /\ Cardinality(ManifestCards) + Len(DuplicateWarnings) = Len(WalkedCards.cards)
      /\ (flows # << >> /\ pc # "build") =>
            /\ graph # NoGraph
            /\ \A i \in 1..Len(flows[1].cards) :
                 LET card == flows[1].cards[i]
                     routes == graph.nodes[card.card_id].routes
                 IN /\ RouteTargets(graph.nodes[card.card_id]) = ActionTargets(card)
                    /\ Len(RenameWarnings(card.card_id))
                         = Cardinality(Collisions(card, routes))
                    /\ \A t \in Range(DanglingTargets(card, flows[1])) :
                         /\ t \in DOMAIN graph.nodes
                         /\ Len(StubWarnings(t)) = 1
      /\ (flows # << >> /\ pc = "done") =>
            /\ Len(AddSteps) = Cardinality(DOMAIN graph.nodes)
            /\ \A k \in 1..Len(AddSteps) :
                 LET n == AddSteps[k].node_id IN
                 Len(AddSteps[k].targets) + Len(OmittedWarnings(n))
                   = Len(graph.nodes[n].routes)

C23_Witness ==
    /\ ~strict /\ pc = "done"
    /\ default_flow = None
    /\ ConflictFiles # {}
    /\ \E p \in PlainlyCards : Len(MissingFlowWarnings(p)) = 1
    /\ \E n \in DOMAIN graph.nodes : Len(OmittedWarnings(n)) >= 1
    /\ \E n \in DOMAIN graph.nodes : Len(StubWarnings(n)) = 1

\* the cards of the current flow whose id is the data.cardId of their own
\* actions, one of which carries no data.step
SelfRouted ==
    { card \in Range(flows[flowIdx].cards) :
        LET file == cards_dir[card.rel_path] IN
        /\ Range(DataCardIds(file)) = { card.card_id }
        /\ \E k \in 1..Len(file.actions) :
              /\ file.actions[k].is_object
              /\ file.actions[k].cardId = Some(card.card_id)
              /\ file.actions[k].step = None }

\* the graph of the current flow is built
GraphBuilt ==
    /\ flows # << >> /\ graph # NoGraph
    /\ pc \in { "scaffold", "nodes", "done", "failed" }

SelfEdges == { n \in DOMAIN graph.nodes : n \in Succ(graph, n) }

SelfWarnings(n) ==
    SelectSeq(warnings,
              LAMBDA w : /\ w.what = "routing omitted due to ordering"
                         /\ w.a = n /\ w.b = n)

SelfRoutes(n) == SelectSeq(graph.nodes[n].routes, LAMBDA r : r.target = n)

\* C30: a card whose id comes from the data.cardId of its own action, with no
\* data.step, has an edge from its node to itself.  For every node with an
\* edge to itself: no add-step call of the node names the node among its
\* targets; a strict emission never completes, issues no add-step for the
\* node and fails with the ordering error or a tool failure; a lenient
\* emission records one ordering warning per edge of the node to itself when
\* it issues the node's add-step; and the node stands in the part of the order
\* that follows the last ready node.
C30_SelfEdgeNeverRendered ==
    GraphBuilt =>
      /\ \A card \in SelfRouted : card.card_id \in SelfEdges
      /\ \A n \in SelfEdges :
           /\ strict => /\ pc # "done"
                        /\ pc = "failed" => (OrderingError \/ ToolError)
           /\ FreshOrder => Position(order, n) + 1 >= FirstStuck(graph, order)
           /\ pc # "scaffold" =>
                /\ \A k \in 1..Len(AddSteps) :
                     AddSteps[k].node_id = n =>
                       /\ ~strict
                       /\ n \notin Range(AddSteps[k].targets)
                       /\ Len(SelfWarnings(n)) = Len(SelfRoutes(n))
                /\ (pc = "done" /\ ~strict) => n \in Range(AddStepIds)

C30_Witness ==
    /\ ~strict /\ pc = "done" /\ GraphBuilt
    /\ \E card \in SelfRouted :
          /\ card.rel_path = "B.json" /\ card.card_id = "A"
          /\ "A" \in Range(AddStepIds)
          /\ Len(SelfWarnings("A")) = 1

----------------------------------------------------------------------------
(* Properties of the prompt node *)

\* the nodes section of a document: the lines after the first "nodes:" line
\* up to the next line, comments and blank lines aside, indented less than
\* two spaces
RECURSIVE SectionFrom(_, _)
SectionFrom(d, i) ==
    IF i > Len(d) THEN << >>
    ELSE IF d[i].form \in { "blank", "comment" } THEN SectionFrom(d, i + 1)
    ELSE IF d[i].indent < 2 THEN << >>
    ELSE << d[i] >> \o SectionFrom(d, i + 1)

\* the node names of a document, in document order
DocumentNodes(d) ==
    IF FindNodesMarker(d) = 0 THEN << >>
    ELSE LET keys == SelectSeq(SectionFrom(d, FindNodesMarker(d) + 1),
                               LAMBDA l : l.indent = 2 /\ l.form = "key")
         IN [ k \in 1..Len(keys) |-> keys[k].name ]

PromptCount(d) ==
    Len(SelectSeq(DocumentNodes(d), LAMBDA n : n = "prompt2flow"))

\* C20: on a document with at least one node, insert_prompt_node (a) leaves
\* it unchanged when prompt2flow is the first node, (b) fails and leaves it
\* unchanged when prompt2flow is a node but not the first, (c) otherwise
\* inserts prompt2flow as the first node, routed to the former first node;
\* after successful calls prompt2flow is the first node and occurs once.
C20_PromptNodePlacement ==
    (rounds >= 1 /\ DocumentNodes(doc0) # << >>) =>
      /\ DocumentNodes(doc0)[1] = "prompt2flow" =>
            doc = doc0 /\ error = None
      /\ (DocumentNodes(doc0)[1] # "prompt2flow" /\ PromptCount(doc0) > 0) =>
            doc = doc0 /\ error # None
      /\ PromptCount(doc0) = 0 =>
            /\ error = None
            /\ DocumentNodes(doc) = << "prompt2flow" >> \o DocumentNodes(doc0)
            /\ doc = SubSeq(doc0, 1, FindNodesMarker(doc0))
                       \o PromptSnippet(DocumentNodes(doc0)[1])
                       \o SubSeq(doc0, FindNodesMarker(doc0) + 1, Len(doc0))
      /\ error = None =>
            /\ DocumentNodes(doc)[1] = "prompt2flow"
            /\ PromptCount(doc) = 1

C20_Witness ==
    /\ rounds >= 2
    /\ error = None
    /\ Len(DocumentNodes(doc0)) >= 2
    /\ PromptCount(doc0) = 0
    /\ doc # doc0
    /\ DocumentNodes(doc) = << "prompt2flow" >> \o DocumentNodes(doc0)

----------------------------------------------------------------------------
(* Properties of the merge *)

\* the first begin marker comes before the first end marker
ValidPairFirst(txt) ==
    /\ Find(txt, BEGIN_MARKER) # 0
    /\ Find(txt, END_MARKER) # 0
    /\ Find(txt, END_MARKER) > Find(txt, BEGIN_MARKER)

\* some begin marker is followed later by some end marker
HasPairAnywhere(txt) ==
    \E i, j \in 1..Len(txt) :
        i < j /\ txt[i] = BEGIN_MARKER /\ txt[j] = END_MARKER

TextBeforeBegin(txt) == SubSeq(txt, 1, Find(txt, BEGIN_MARKER) - 1)

\* the text after the line that holds position `end`
TextAfterLine(txt, end) ==
    IF \E i \in end..Len(txt) : txt[i] = NL
    THEN SubSeq(txt, 1 + (CHOOSE i \in end..Len(txt) :
                            txt[i] = NL /\ \A j \in end..(i - 1) : txt[j] # NL),
                Len(txt))
    ELSE << >>

\* the lines of the developer region: before the begin marker and after the
\* end marker's line
DevRegionLines(txt) ==
    Range(lines(TextBeforeBegin(txt)))
      \cup Range(lines(TextAfterLine(txt, Find(txt, END_MARKER))))

\* C2: regenerating the primary document (one with a valid marker pair and a
\* complete end-marker line) keeps every line of its developer region, before
\* the begin marker and after the end marker's line, as a comment: "# " + line,
\* or "#" for a blank line.
C2_DeveloperRegionKept ==
    (/\ primary /\ rounds = 1
     /\ ValidPairFirst(doc0)
     /\ \E i \in Find(doc0, END_MARKER)..Len(doc0) : doc0[i] = NL) =>
      \A line \in DevRegionLines(doc0) :
          (IF \A i \in 1..Len(line) : line[i] \in { NL, SP }
           THEN << HASH >> ELSE << HASH, SP >> \o line)
            \in Range(lines(doc))

\* C3 as claimed: whenever a begin marker is followed later by an end marker
\* the span between them is replaced and the rest kept; otherwise a non-blank
\* text is kept whole below the new block.
C3_Original ==
    (~primary /\ rounds >= 1) =>
      /\ HasPairAnywhere(doc0) =>
            doc = TextBeforeBegin(doc0) \o block
                    \o TextAfterLine(doc0, FindFrom(doc0, Find(doc0, BEGIN_MARKER),
                                                    END_MARKER))
      /\ (~HasPairAnywhere(doc0) /\ \E i \in 1..Len(doc0) : doc0[i] \notin { NL, SP }) =>
            doc = block \o << NL >> \o doc0

\* C3 amended: when the first begin marker comes before the first end marker,
\* every merge leaves the text before that begin marker, the latest block, and
\* the text after that end marker's line; otherwise a non-blank text is kept
\* whole, after the latest block and one blank line.
C3_NonPrimaryMerge ==
    (~primary /\ rounds >= 1) =>
      /\ ValidPairFirst(doc0) =>
            doc = TextBeforeBegin(doc0) \o block
                    \o TextAfterLine(doc0, Find(doc0, END_MARKER))
      /\ (~ValidPairFirst(doc0) /\ \E i \in 1..Len(doc0) : doc0[i] \notin { NL, SP }) =>
            doc = block \o << NL >> \o doc0

C3_Witness ==
    /\ ~primary /\ rounds = MaxRounds
    /\ doc0 = << "x", BEGIN_MARKER, END_MARKER, NL, "x" >>
    /\ block = Block(<< "g2" >>)
    /\ doc = << "x" >> \o Block(<< "g2" >>) \o << "x" >>

====
